---------------------------- MODULE Spec2Model ----------------------------
(***************************************************************************)
(* Model of the NAT connector for AWS (src/main.go, src/event.go).         *)
(*                                                                         *)
(* A handler receives a message from the bus, decodes and validates it,    *)
(* runs the workflow selected by the subject against the cloud account     *)
(* and publishes one reply.  Every remote call of a workflow is one step   *)
(* of the model; the local computation between two remote calls belongs    *)
(* to the step of the call that precedes it.  The cloud account (internet  *)
(* gateways, route tables, routes, NAT gateways) is the environment: a     *)
(* remote call either fails with a provider error or succeeds and changes  *)
(* the account.                                                            *)
(***************************************************************************)
EXTENDS Naturals, Sequences, FiniteSets, TLC

----------------------------------------------------------------------------
(* Bounds of the model *)

\* messages one handler receives in a behaviour
MaxMsgs == 2
\* longest routed_networks_aws_ids list of a payload
MaxRouted == 2
\* describe polls of one delete-wait loop
MaxPolls == 3

----------------------------------------------------------------------------
(* Values *)

\* the goroutines that run the handler; Spec runs the first one alone
Procs == {"h1"}

\* a nil pointer / absent value of the SDK's response structures
Null == "<null>"
\* a nil error
Nil == "<nil>"

Subjects == {"nat.create.aws", "nat.update.aws", "nat.delete.aws"}

ErrDatacenterIDInvalid == "Datacenter VPC ID invalid"
ErrDatacenterRegionInvalid == "Datacenter Region invalid"
ErrDatacenterCredentialsInvalid == "Datacenter credentials invalid"
ErrNetworkIDInvalid == "Network id invalid"
ErrRoutedNetworksEmpty == "Routed networks are empty"
ErrNatGatewayIDInvalid == "Nat Gateway aws id invalid"

\* the message of the error a failed remote call returns
ProviderError(op) == "provider error: " \o op

DefaultCidr == "0.0.0.0/0"
LocalCidr == "10.0.0.0/16"

SubnetIds == {"subnet-a", "subnet-b"}
VpcIds == {"vpc-1"}

\* the string fields of a payload, by wire name, with the value a payload
\* that has the field carries
SampleValue ==
    [k \in {"vpc_id", "datacenter_region", "datacenter_secret",
            "datacenter_token", "public_network_aws_id", "nat_gateway_aws_id"} |->
        CASE k = "vpc_id" -> "vpc-1"
          [] k = "datacenter_region" -> "us-east-1"
          [] k = "datacenter_secret" -> "k"
          [] k = "datacenter_token" -> "t"
          [] k = "public_network_aws_id" -> "subnet-pub"
          [] k = "nat_gateway_aws_id" -> "nat-0"]

StringKeys == DOMAIN SampleValue

RECURSIVE SeqsUpTo(_, _)
SeqsUpTo(S, n) ==
    IF n = 0 THEN {<<>>}
    ELSE LET shorter == SeqsUpTo(S, n - 1)
         IN  shorter \cup {Append(s, x) : s \in {t \in shorter : Len(t) = n - 1}, x \in S}

RoutedLists == SeqsUpTo(SubnetIds, MaxRouted)

\* the bytes of a message: the JSON object they encode, a function from wire
\* names to values, or bytes that encode none
Bytes(object) == [object |-> object, valid |-> TRUE]

\* a decodable payload
Payload(present, routed) ==
    Bytes([k \in present \cup {"routed_networks_aws_ids"} |->
              IF k = "routed_networks_aws_ids" THEN routed ELSE SampleValue[k]])

Payloads == {Payload(present, routed) : present \in SUBSET StringKeys, routed \in RoutedLists}

\* a decodable payload that carries every string field and, in error_message,
\* the message of a failure reported earlier
PayloadsWithError ==
    {Bytes([k \in StringKeys \cup {"routed_networks_aws_ids", "error_message"} |->
               CASE k = "routed_networks_aws_ids" -> routed
                 [] k = "error_message" -> "earlier failure"
                 [] OTHER -> SampleValue[k]]) : routed \in RoutedLists}

\* a payload that json.Unmarshal rejects
Malformed == [object |-> [k \in {} |-> ""], valid |-> FALSE]

\* another one: the bytes of an object cut short
Truncated == [object |-> [k \in {"vpc_id"} |-> "vpc-1"], valid |-> FALSE]

Undecodable == {Malformed, Truncated}

Messages == [subject : Subjects, data : Payloads \cup PayloadsWithError \cup Undecodable]

----------------------------------------------------------------------------
(* The record of a request: type Event *)

Event ==
    [VPCID |-> "", DatacenterRegion |-> "", DatacenterAccessKey |-> "",
     DatacenterAccessToken |-> "", PublicNetworkAWSID |-> "",
     RoutedNetworkAWSIDs |-> <<>>, NatGatewayAWSID |-> "",
     NatGatewayAllocationID |-> "", NatGatewayAllocationIP |-> "",
     InternetGatewayID |-> "", ErrorMessage |-> "", action |-> ""]

\* the wire name of each exported field (the struct tags)
WireName ==
    [f \in DOMAIN Event \ {"action"} |->
        CASE f = "VPCID" -> "vpc_id"
          [] f = "DatacenterRegion" -> "datacenter_region"
          [] f = "DatacenterAccessKey" -> "datacenter_secret"
          [] f = "DatacenterAccessToken" -> "datacenter_token"
          [] f = "PublicNetworkAWSID" -> "public_network_aws_id"
          [] f = "RoutedNetworkAWSIDs" -> "routed_networks_aws_ids"
          [] f = "NatGatewayAWSID" -> "nat_gateway_aws_id"
          [] f = "NatGatewayAllocationID" -> "nat_gateway_allocation_id"
          [] f = "NatGatewayAllocationIP" -> "nat_gateway_allocation_ip"
          [] f = "InternetGatewayID" -> "internet_gateway_id"
          [] f = "ErrorMessage" -> "error_message"]

\* json.Unmarshal(data, &ev): a field the object names takes its value, any
\* other field keeps the value it has
Unmarshal(data, ev) ==
    [f \in DOMAIN ev |->
        IF f \in DOMAIN WireName /\ WireName[f] \in DOMAIN data.object
        THEN data.object[WireName[f]] ELSE ev[f]]

\* json.Marshal(ev): every exported field under its wire name; error_message
\* is omitted when empty, the unexported action is never written
Marshal(ev) ==
    LET fields == {f \in DOMAIN WireName : ~(f = "ErrorMessage" /\ ev[f] = "")}
        FieldOf(k) == CHOOSE f \in fields : WireName[f] = k
    IN  Bytes([k \in {WireName[f] : f \in fields} |-> ev[FieldOf(k)]])

\* strings.Split(subject, ".")[1]
ActionOf(subject) ==
    CASE subject = "nat.create.aws" -> "create"
      [] subject = "nat.update.aws" -> "update"
      [] subject = "nat.delete.aws" -> "delete"


\* Validate with the credentials check reading the access key alone
Validate_SkipsTokenCheck(ev, subject) ==
    IF ev.VPCID = "" THEN ErrDatacenterIDInvalid
    ELSE IF ev.DatacenterRegion = "" THEN ErrDatacenterRegionInvalid
    ELSE IF ev.DatacenterAccessKey = "" THEN ErrDatacenterCredentialsInvalid
    ELSE IF subject = "nat.delete.aws"
         THEN (IF ev.NatGatewayAWSID = "" THEN ErrNatGatewayIDInvalid ELSE Nil)
    ELSE IF ev.PublicNetworkAWSID = "" THEN ErrNetworkIDInvalid
    ELSE IF Len(ev.RoutedNetworkAWSIDs) < 1 THEN ErrRoutedNetworksEmpty
    ELSE Nil

\* Validate with the delete branch checking nothing
Validate_DeleteUnchecked(ev, subject) ==
    IF ev.VPCID = "" THEN ErrDatacenterIDInvalid
    ELSE IF ev.DatacenterRegion = "" THEN ErrDatacenterRegionInvalid
    ELSE IF ev.DatacenterAccessKey = "" \/ ev.DatacenterAccessToken = ""
         THEN ErrDatacenterCredentialsInvalid
    ELSE IF subject = "nat.delete.aws" THEN Nil
    ELSE IF ev.PublicNetworkAWSID = "" THEN ErrNetworkIDInvalid
    ELSE IF Len(ev.RoutedNetworkAWSIDs) < 1 THEN ErrRoutedNetworksEmpty
    ELSE Nil

\* Validate with the region tested before the VPC ID
Validate_RegionFirst(ev, subject) ==
    IF ev.DatacenterRegion = "" THEN ErrDatacenterRegionInvalid
    ELSE IF ev.VPCID = "" THEN ErrDatacenterIDInvalid
    ELSE IF ev.DatacenterAccessKey = "" \/ ev.DatacenterAccessToken = ""
         THEN ErrDatacenterCredentialsInvalid
    ELSE IF subject = "nat.delete.aws"
         THEN (IF ev.NatGatewayAWSID = "" THEN ErrNatGatewayIDInvalid ELSE Nil)
    ELSE IF ev.PublicNetworkAWSID = "" THEN ErrNetworkIDInvalid
    ELSE IF Len(ev.RoutedNetworkAWSIDs) < 1 THEN ErrRoutedNetworksEmpty
    ELSE Nil

\* Event.Validate(subject): the first failing check, Nil when none fails
Validate(ev, subject) ==
    IF ev.VPCID = "" THEN ErrDatacenterIDInvalid
    ELSE IF ev.DatacenterRegion = "" THEN ErrDatacenterRegionInvalid
    ELSE IF ev.DatacenterAccessKey = "" \/ ev.DatacenterAccessToken = ""
         THEN ErrDatacenterCredentialsInvalid
    ELSE IF subject = "nat.delete.aws"
         THEN (IF ev.NatGatewayAWSID = "" THEN ErrNatGatewayIDInvalid ELSE Nil)
    ELSE IF ev.PublicNetworkAWSID = "" THEN ErrNetworkIDInvalid
    ELSE IF Len(ev.RoutedNetworkAWSIDs) < 1 THEN ErrRoutedNetworksEmpty
    ELSE Nil

----------------------------------------------------------------------------
(* Routes and route tables of the SDK *)

\* an ec2.Route: DestinationCidrBlock and NatGatewayId are pointers, Null when
\* the route has no IPv4 destination or does not target a NAT gateway
LocalRoute == [dest |-> LocalCidr, nat |-> Null]
NatRoute(gwID) == [dest |-> DefaultCidr, nat |-> gwID]
GatewayRoute == [dest |-> DefaultCidr, nat |-> Null]
Ipv6Route == [dest |-> Null, nat |-> Null]

\* no route table: a nil *ec2.RouteTable
NoTable == [id |-> Null, routes |-> <<>>]

\* routeTableIsConfigured(rt, gwID): "true", "false", or "panic" when the scan
\* dereferences a nil DestinationCidrBlock or, on a 0.0.0.0/0 route, a nil
\* NatGatewayId (the && evaluates its right side only then)
RECURSIVE ScanRoutes(_, _, _)
ScanRoutes(routes, gwID, k) ==
    IF k > Len(routes) THEN "false"
    ELSE IF routes[k].dest = Null THEN "panic"
    ELSE IF routes[k].dest = DefaultCidr
         THEN (IF routes[k].nat = Null THEN "panic"
               ELSE IF routes[k].nat = gwID THEN "true"
               ELSE ScanRoutes(routes, gwID, k + 1))
    ELSE ScanRoutes(routes, gwID, k + 1)

\* routeTableIsConfigured with a scan that never matches
routeTableIsConfigured_NeverMatches(rt, gwID) == "false"

routeTableIsConfigured(rt, gwID) == ScanRoutes(rt.routes, gwID, 1)

----------------------------------------------------------------------------
(* State *)

VARIABLES
    w,            \* per handler: position, record, locals, calls issued, replies published
    igwAttached,  \* cloud: the internet gateway attached to each VPC, "" when none
    routeTables,  \* cloud: the route tables, each with its associated subnet and routes
    nats          \* cloud: each NAT gateway, "present" (pending, available or
                  \* failed), "deleting" or "deleted"

vars == <<w, igwAttached, routeTables, nats>>

\* what the last lookup function returned, the resource (Null for nil) and the
\* error, with what the cloud had answered: whether DescribeXxx returned
\* without error, and how many resources it listed
Lookup(op, ok, listed, res, err) ==
    [op |-> op, answered |-> ok, listed |-> IF ok THEN listed ELSE 0, res |-> res, err |-> err]

NoLookup == Lookup("", FALSE, 0, Null, Nil)

\* the record and the account a workflow was called on, and the run of a
\* workflow that has returned
NoStart ==
    [ev |-> Event, igwAttached |-> [v \in VpcIds |-> ""], routeTables |-> <<>>,
     nats |-> [id \in {} |-> ""]]

NoRun == [pc |-> "", wf |-> "none", calls |-> <<>>, err |-> Nil, ev |-> Event]

\* the state of a handler before its first message
Idle ==
    [pc |-> "idle", n |-> 0, msg |-> [subject |-> "", data |-> Malformed],
     rerun |-> FALSE, style |-> "handler", wf |-> "none", ev |-> Event,
     err |-> Nil, calls |-> <<>>, replies |-> <<>>,
     i |-> 0, rt |-> NoTable, gw |-> "", igw |-> "", polls |-> 0,
     lookup |-> NoLookup, start |-> NoStart, first |-> NoRun]

RtbId(k) == "rtb-" \o ToString(k)

\* the address the cloud allocates to the n-th request of handler p
FreshId(prefix, p, n) == prefix \o "-" \o p \o "-" \o ToString(n)

\* the identifiers the cloud gives the next NAT gateway and the next internet
\* gateway it creates
NewNatGatewayId == "nat-" \o ToString(Cardinality(DOMAIN nats))
NewInternetGatewayId ==
    "igw-" \o ToString(Cardinality({v \in VpcIds : igwAttached[v] # ""}) + 1)

\* the routes a route table of the account may hold before the first request
InitialRouteLists ==
    {<<LocalRoute>>, <<LocalRoute, NatRoute("nat-0")>>,
     <<LocalRoute, GatewayRoute>>, <<LocalRoute, Ipv6Route>>}

\* the account before the first request: no route table, or one associated
\* with subnet-a
InitialTables ==
    {<<>>} \cup {<<[subnet |-> "subnet-a", routes |-> r]>> : r \in InitialRouteLists}

Init ==
    /\ w = [p \in Procs |-> Idle]
    /\ igwAttached \in [VpcIds -> {"", "igw-0"}]
    /\ routeTables \in InitialTables
    /\ nats = [id \in {"nat-0"} |-> "present"]

----------------------------------------------------------------------------
(* Cloud lookups *)

\* AttachedGateway with a filter that matches no gateway
AttachedGateway_MatchesNone(vpc) == ""

\* DescribeInternetGateways filtered by attachment.vpc-id, first element
AttachedGateway(vpc) == IF vpc \in VpcIds THEN igwAttached[vpc] ELSE ""

\* DescribeRouteTables filtered by association.subnet-id, first element
AssociatedTables(subnet) == {k \in 1..Len(routeTables) : routeTables[k].subnet = subnet}

FirstAssociated(subnet) ==
    LET ks == AssociatedTables(subnet)
        k == CHOOSE x \in ks : \A y \in ks : x <= y
    IN  IF ks = {} THEN NoTable ELSE [id |-> RtbId(k), routes |-> routeTables[k].routes]

TableIndex(id) == CHOOSE k \in 1..Len(routeTables) : RtbId(k) = id

HasDestination(routes, cidr) == \E k \in 1..Len(routes) : routes[k].dest = cidr

----------------------------------------------------------------------------
(* Replies: Event.Error, Event.Complete, and the return of a workflow *)

Call(s, op, arg, ok, res) ==
    Append(s.calls, [op |-> op, arg |-> arg, i |-> s.i, ok |-> ok, res |-> res])

\* Error with the reply built from an empty record that holds the message alone
Error_RepliesWithEmptyRecord(s, err) ==
    LET ev == [Event EXCEPT !.ErrorMessage = err, !.action = s.ev.action]
    IN  [s EXCEPT !.ev = ev, !.err = err, !.pc = "done",
                  !.replies = Append(s.replies,
                      [subject |-> "nat." \o ev.action \o ".aws.error", data |-> Marshal(ev)])]

\* Event.Error(err): sets error_message, publishes on nat.<action>.aws.error
Error(s, err) ==
    LET ev == [s.ev EXCEPT !.ErrorMessage = err]
    IN  [s EXCEPT !.ev = ev, !.err = err, !.pc = "done",
                  !.replies = Append(s.replies,
                      [subject |-> "nat." \o ev.action \o ".aws.error", data |-> Marshal(ev)])]

\* Event.Complete(): publishes on nat.<action>.aws.done
Complete(s) ==
    [s EXCEPT !.pc = "done",
              !.replies = Append(s.replies,
                  [subject |-> "nat." \o s.ev.action \o ".aws.done", data |-> Marshal(s.ev)])]

\* Return with the handler returning on an error without replying
Return_DropsError(s, err) ==
    IF s.style = "handler"
    THEN (IF err # Nil THEN [s EXCEPT !.pc = "done", !.err = err] ELSE Complete(s))
    ELSE [s EXCEPT !.pc = "returned", !.err = err]

\* the end of a workflow: eventHandler replies (main.go:48-53), a direct
\* caller gets the error back
Return(s, err) ==
    IF s.style = "handler"
    THEN (IF err # Nil THEN Error(s, err) ELSE Complete(s))
    ELSE [s EXCEPT !.pc = "returned", !.err = err]

----------------------------------------------------------------------------
(* The handler: eventHandler, Event.Process *)

\* the switch of eventHandler on the operation name: create and update call
\* their workflow, the delete case holds a commented-out call and leaves err
\* nil, so the handler goes on to Complete
Dispatch(s) ==
    CASE s.ev.action = "create" -> [s EXCEPT !.wf = "create", !.pc = "AllocateAddress"]
      [] s.ev.action = "update" ->
            [s EXCEPT !.wf = "update", !.i = 1, !.pc = "DescribeRouteTables"]
      [] OTHER -> Complete(s)

\* Process with the decode failure answered by the record instead of the bytes
Process_RepliesWithRecord(s, subject, data) ==
    LET ev == [s.ev EXCEPT !.action = ActionOf(subject)]
    IN  IF ~data.valid
        THEN [s EXCEPT !.ev = ev, !.err = "decode error", !.pc = "done",
                       !.replies = Append(s.replies,
                           [subject |-> subject \o ".error", data |-> Marshal(ev)])]
        ELSE [s EXCEPT !.ev = Unmarshal(data, ev)]

\* Event.Process(subject, data): sets the action, decodes the payload; a
\* payload that does not decode is published unchanged on <subject>.error
Process(s, subject, data) ==
    LET ev == [s.ev EXCEPT !.action = ActionOf(subject)]
    IN  IF ~data.valid
        THEN [s EXCEPT !.ev = ev, !.err = "decode error", !.pc = "done",
                       !.replies = Append(s.replies,
                           [subject |-> subject \o ".error", data |-> data])]
        ELSE [s EXCEPT !.ev = Unmarshal(data, ev)]

\* eventHandler up to its first remote call: Process, Validate, the switch
Handle(s, m) ==
    LET s1 == Process(s, m.subject, m.data)
        verr == Validate(s1.ev, m.subject)
    IN  IF s1.err # Nil THEN s1
        ELSE IF verr # Nil THEN Error(s1, verr)
        ELSE Dispatch(s1)

\* a message arrives and eventHandler runs on a fresh Event.  The model
\* remembers the request just handled until Discard: the message that arrives
\* before it is the same request sent again, and rerun marks it when the first
\* handling succeeded
eventHandler(p) ==
    /\ w[p].pc \in {"idle", "done"}
    /\ w[p].n < MaxMsgs
    /\ \E m \in (IF w[p].pc = "idle" THEN Messages ELSE {w[p].msg}) :
          LET s0 == [Idle EXCEPT !.n = w[p].n + 1, !.msg = m,
                         !.rerun = (w[p].pc = "done" /\ w[p].err = Nil)]
          IN  w' = [w EXCEPT ![p] = Handle(s0, m)]
    /\ UNCHANGED <<igwAttached, routeTables, nats>>

\* eventHandler has returned: its Event is discarded (var n Event, main.go:27)
Discard(p) ==
    /\ w[p].pc = "done"
    /\ w[p].n < MaxMsgs
    /\ w' = [w EXCEPT ![p] = [Idle EXCEPT !.n = w[p].n]]
    /\ UNCHANGED <<igwAttached, routeTables, nats>>

----------------------------------------------------------------------------
(* CreateNat *)

\* svc.AllocateAddress (main.go:188)
AllocateAddress(p) ==
    LET s == w[p] IN
    /\ s.pc = "AllocateAddress"
    /\ \E ok \in BOOLEAN :
          LET id == FreshId("eipalloc", p, s.n)
              s1 == [s EXCEPT !.calls = Call(s, "AllocateAddress", "", ok, IF ok THEN id ELSE Null)]
          IN  w' = [w EXCEPT ![p] =
                  IF ok
                  THEN [s1 EXCEPT !.ev.NatGatewayAllocationID = id,
                                  !.ev.NatGatewayAllocationIP = FreshId("ip", p, s.n),
                                  !.pc = "DescribeInternetGateways"]
                  ELSE Return(s1, ProviderError("AllocateAddress"))]
    /\ UNCHANGED <<igwAttached, routeTables, nats>>

\* createInternetGateway: the lookup internetGatewayByVPCID (main.go:105-112)
internetGatewayByVPCID(p) ==
    LET s == w[p] IN
    /\ s.pc = "DescribeInternetGateways"
    /\ \E ok \in BOOLEAN :
          LET found == AttachedGateway(s.ev.VPCID)
              ig == IF ok /\ found # "" THEN found ELSE Null
              s1 == [s EXCEPT !.calls = Call(s, "DescribeInternetGateways", s.ev.VPCID, ok, ig),
                              !.lookup = Lookup("internetGatewayByVPCID", ok,
                                                IF found # "" THEN 1 ELSE 0, ig,
                                                IF ok THEN Nil
                                                ELSE ProviderError("DescribeInternetGateways"))]
          IN  w' = [w EXCEPT ![p] =
                  IF ~ok
                  THEN Return([s1 EXCEPT !.ev.InternetGatewayID = ""],
                              ProviderError("DescribeInternetGateways"))
                  ELSE IF ig # Null
                  THEN [s1 EXCEPT !.ev.InternetGatewayID = ig, !.pc = "CreateNatGateway"]
                  ELSE [s1 EXCEPT !.pc = "CreateInternetGateway"]]
    /\ UNCHANGED <<igwAttached, routeTables, nats>>

\* createInternetGateway: svc.CreateInternetGateway (main.go:114-117)
createInternetGateway_Create(p) ==
    LET s == w[p] IN
    /\ s.pc = "CreateInternetGateway"
    /\ \E ok \in BOOLEAN :
          LET id == NewInternetGatewayId
              s1 == [s EXCEPT !.calls = Call(s, "CreateInternetGateway", "", ok, IF ok THEN id ELSE Null)]
          IN  w' = [w EXCEPT ![p] =
                  IF ok
                  THEN [s1 EXCEPT !.igw = id, !.pc = "AttachInternetGateway"]
                  ELSE Return([s1 EXCEPT !.ev.InternetGatewayID = ""],
                              ProviderError("CreateInternetGateway"))]
    /\ UNCHANGED <<igwAttached, routeTables, nats>>

\* createInternetGateway: svc.AttachInternetGateway (main.go:119-129); the
\* cloud attaches at most one internet gateway to a VPC
createInternetGateway_Attach(p) ==
    LET s == w[p] IN
    /\ s.pc = "AttachInternetGateway"
    /\ \E ok \in BOOLEAN :
          LET s1 == [s EXCEPT !.calls = Call(s, "AttachInternetGateway", s.igw, ok, Null)]
          IN  /\ ok => AttachedGateway(s.ev.VPCID) = "" /\ s.ev.VPCID \in VpcIds
              /\ w' = [w EXCEPT ![p] =
                    IF ok
                    THEN [s1 EXCEPT !.ev.InternetGatewayID = s.igw, !.pc = "CreateNatGateway"]
                    ELSE Return([s1 EXCEPT !.ev.InternetGatewayID = ""],
                                ProviderError("AttachInternetGateway"))]
              /\ igwAttached' = IF ok THEN [igwAttached EXCEPT ![s.ev.VPCID] = s.igw]
                                ELSE igwAttached
    /\ UNCHANGED <<routeTables, nats>>

\* svc.CreateNatGateway (main.go:203-213)
CreateNatGateway(p) ==
    LET s == w[p] IN
    /\ s.pc = "CreateNatGateway"
    /\ \E ok \in BOOLEAN :
          LET id == NewNatGatewayId
              s1 == [s EXCEPT !.calls = Call(s, "CreateNatGateway", s.ev.PublicNetworkAWSID,
                                             ok, IF ok THEN id ELSE Null)]
          IN  /\ w' = [w EXCEPT ![p] =
                    IF ok
                    THEN [s1 EXCEPT !.ev.NatGatewayAWSID = id, !.gw = id,
                                    !.pc = "WaitUntilNatGatewayAvailable"]
                    ELSE Return(s1, ProviderError("CreateNatGateway"))]
              /\ nats' = IF ok THEN [x \in DOMAIN nats \cup {id} |->
                                        IF x = id THEN "present" ELSE nats[x]]
                         ELSE nats
    /\ UNCHANGED <<igwAttached, routeTables>>

\* AfterWait with the waiter's error ignored
AfterWait_IgnoresError(s, ok) ==
    IF Len(s.ev.RoutedNetworkAWSIDs) = 0 THEN Return(s, Nil)
    ELSE [s EXCEPT !.i = 1, !.pc = "DescribeRouteTables"]

\* the position after the wait (main.go:219-224): the route loop starts at the
\* first routed subnet when the wait returned nil
AfterWait(s, ok) ==
    IF ~ok THEN Return(s, ProviderError("WaitUntilNatGatewayAvailable"))
    ELSE IF Len(s.ev.RoutedNetworkAWSIDs) = 0 THEN Return(s, Nil)
    ELSE [s EXCEPT !.i = 1, !.pc = "DescribeRouteTables"]

\* svc.WaitUntilNatGatewayAvailable (main.go:215-222): the waiter returns nil
\* once the gateway is available, an error on a failed state or a timeout
WaitUntilNatGatewayAvailable(p) ==
    LET s == w[p] IN
    /\ s.pc = "WaitUntilNatGatewayAvailable"
    /\ \E ok \in BOOLEAN :
          LET s1 == [s EXCEPT !.calls = Call(s, "WaitUntilNatGatewayAvailable", s.gw, ok, Null)]
          IN  w' = [w EXCEPT ![p] = AfterWait(s1, ok)]
    /\ UNCHANGED <<igwAttached, routeTables, nats>>

----------------------------------------------------------------------------
(* The route loop of CreateNat and UpdateNat *)

\* the NAT gateway the loop routes to: gwresp's in CreateNat (main.go:230),
\* the record's in UpdateNat (main.go:253-257)
LoopGateway(s) == IF s.wf = "create" THEN s.gw ELSE s.ev.NatGatewayAWSID

\* CurrentSubnet with the list walked from its end
CurrentSubnet_Reversed(s) ==
    s.ev.RoutedNetworkAWSIDs[Len(s.ev.RoutedNetworkAWSIDs) + 1 - s.i]

\* the subnet of the current iteration of the range loop (main.go:224, 247)
CurrentSubnet(s) == s.ev.RoutedNetworkAWSIDs[s.i]

\* NextSubnet with the loop left after its first iteration
NextSubnet_StopsAfterFirst(s) == Return([s EXCEPT !.rt = NoTable], Nil)

\* the end of one iteration: the next subnet, or return nil after the last
NextSubnet(s) ==
    IF s.i < Len(s.ev.RoutedNetworkAWSIDs)
    THEN [s EXCEPT !.i = s.i + 1, !.rt = NoTable, !.pc = "DescribeRouteTables"]
    ELSE Return([s EXCEPT !.rt = NoTable], Nil)

\* after createRouteTable returned rt: CreateNat installs the route
\* (main.go:230); UpdateNat scans the table first and skips a configured one
\* (main.go:253-255); a nil dereference in the scan ends the process
TableResolved(s, rt) ==
    LET scan == routeTableIsConfigured(rt, s.ev.NatGatewayAWSID)
    IN  IF s.wf = "update" /\ scan = "panic" THEN [s EXCEPT !.rt = rt, !.pc = "panic"]
        ELSE IF s.wf = "update" /\ scan = "true" THEN NextSubnet(s)
        ELSE [s EXCEPT !.rt = rt, !.pc = "CreateRoute"]

\* createRouteTable: the lookup routingTableBySubnetID (main.go:133-140)
routingTableBySubnetID(p) ==
    LET s == w[p] IN
    /\ s.pc = "DescribeRouteTables"
    /\ \E ok \in BOOLEAN :
          LET rt == IF ok THEN FirstAssociated(CurrentSubnet(s)) ELSE NoTable
              s1 == [s EXCEPT !.calls = Call(s, "DescribeRouteTables", CurrentSubnet(s), ok, rt.id),
                              !.lookup = Lookup("routingTableBySubnetID", ok,
                                                Cardinality(AssociatedTables(CurrentSubnet(s))),
                                                rt.id,
                                                IF ok THEN Nil
                                                ELSE ProviderError("DescribeRouteTables"))]
          IN  w' = [w EXCEPT ![p] =
                  IF ~ok THEN Return(s1, ProviderError("DescribeRouteTables"))
                  ELSE IF rt.id # Null THEN TableResolved(s1, rt)
                  ELSE [s1 EXCEPT !.pc = "CreateRouteTable"]]
    /\ UNCHANGED <<igwAttached, routeTables, nats>>

\* createRouteTable: svc.CreateRouteTable (main.go:142-149); a new table
\* holds the VPC's local route and is associated with no subnet
createRouteTable_Create(p) ==
    LET s == w[p] IN
    /\ s.pc = "CreateRouteTable"
    /\ \E ok \in BOOLEAN :
          LET id == RtbId(Len(routeTables) + 1)
              s1 == [s EXCEPT !.calls = Call(s, "CreateRouteTable", s.ev.VPCID, ok,
                                             IF ok THEN id ELSE Null)]
          IN  /\ w' = [w EXCEPT ![p] =
                    IF ok
                    THEN [s1 EXCEPT !.rt = [id |-> id, routes |-> <<LocalRoute>>],
                                    !.pc = "AssociateRouteTable"]
                    ELSE Return(s1, ProviderError("CreateRouteTable"))]
              /\ routeTables' =
                    IF ok THEN Append(routeTables, [subnet |-> "", routes |-> <<LocalRoute>>])
                    ELSE routeTables
    /\ UNCHANGED <<igwAttached, nats>>

\* createRouteTable: svc.AssociateRouteTable (main.go:151-161); the cloud
\* associates at most one route table with a subnet
createRouteTable_Associate(p) ==
    LET s == w[p] IN
    /\ s.pc = "AssociateRouteTable"
    /\ \E ok \in BOOLEAN :
          LET s1 == [s EXCEPT !.calls = Call(s, "AssociateRouteTable", CurrentSubnet(s), ok, s.rt.id)]
          IN  /\ ok => AssociatedTables(CurrentSubnet(s)) = {}
              /\ w' = [w EXCEPT ![p] =
                    IF ok THEN TableResolved(s1, s.rt)
                    ELSE Return(s1, ProviderError("AssociateRouteTable"))]
              /\ routeTables' =
                    IF ok
                    THEN [routeTables EXCEPT ![TableIndex(s.rt.id)].subnet = CurrentSubnet(s)]
                    ELSE routeTables
    /\ UNCHANGED <<igwAttached, nats>>

\* createNatGatewayRoutes: svc.CreateRoute of 0.0.0.0/0 to the NAT gateway
\* (main.go:164-177); the cloud keeps one route per destination in a table
\* and routes only to a NAT gateway it knows
createNatGatewayRoutes(p) ==
    LET s == w[p] IN
    /\ s.pc = "CreateRoute"
    /\ \E ok \in BOOLEAN :
          LET k == TableIndex(s.rt.id)
              s1 == [s EXCEPT !.calls = Call(s, "CreateRoute", s.rt.id, ok, LoopGateway(s))]
          IN  /\ ok => /\ ~HasDestination(routeTables[k].routes, DefaultCidr)
                       /\ LoopGateway(s) \in DOMAIN nats
              /\ w' = [w EXCEPT ![p] =
                    IF ok THEN NextSubnet(s1)
                    ELSE Return(s1, ProviderError("CreateRoute"))]
              /\ routeTables' =
                    IF ok
                    THEN [routeTables EXCEPT
                            ![k].routes = Append(@, NatRoute(LoopGateway(s)))]
                    ELSE routeTables
    /\ UNCHANGED <<igwAttached, nats>>

----------------------------------------------------------------------------
(* The handler's specification: messages are handled one after another *)

CreateNat(p) ==
    \/ AllocateAddress(p)
    \/ internetGatewayByVPCID(p)
    \/ createInternetGateway_Create(p)
    \/ createInternetGateway_Attach(p)
    \/ CreateNatGateway(p)
    \/ WaitUntilNatGatewayAvailable(p)

RouteLoop(p) ==
    \/ routingTableBySubnetID(p)
    \/ createRouteTable_Create(p)
    \/ createRouteTable_Associate(p)
    \/ createNatGatewayRoutes(p)

Next == \E p \in Procs : eventHandler(p) \/ Discard(p) \/ CreateNat(p) \/ RouteLoop(p)

Spec == Init /\ [][Next]_vars

----------------------------------------------------------------------------
(* DeleteNat, which eventHandler does not call: a caller invokes it on a record *)

\* the records DeleteNat is called on
DirectEvents == {Unmarshal(Payload(present, <<>>), Event) : present \in SUBSET StringKeys}

\* a direct call of DeleteNat(ev)
CallDeleteNat(p) ==
    /\ w[p].pc = "idle"
    /\ \E ev \in DirectEvents :
          w' = [w EXCEPT ![p] = [Idle EXCEPT !.style = "direct", !.wf = "delete",
                                             !.ev = ev, !.pc = "DeleteNatGateway"]]
    /\ UNCHANGED <<igwAttached, routeTables, nats>>

\* svc.DeleteNatGateway (main.go:274-281); the cloud deletes a gateway it knows
DeleteNatGateway(p) ==
    LET s == w[p]
        id == s.ev.NatGatewayAWSID
    IN
    /\ s.pc = "DeleteNatGateway"
    /\ \E ok \in BOOLEAN :
          LET s1 == [s EXCEPT !.calls = Call(s, "DeleteNatGateway", id, ok, Null)]
          IN  /\ ok => id \in DOMAIN nats
              /\ w' = [w EXCEPT ![p] =
                    IF ok THEN [s1 EXCEPT !.pc = "DescribeNatGateways"]
                    ELSE Return(s1, ProviderError("DeleteNatGateway"))]
              /\ nats' = IF ok /\ nats[id] = "present"
                         THEN [nats EXCEPT ![id] = "deleting"] ELSE nats
    /\ UNCHANGED <<igwAttached, routeTables>>

\* what DescribeNatGateways lists for an identifier when it does not fail
DescribedGateways(id) == IF id \in DOMAIN nats THEN <<nats[id]>> ELSE <<>>

\* natGatewayByID with a gateway that is not listed returned as nil, nil
natGatewayByID_AbsentIsNil(ok, listed) ==
    IF ~ok THEN [gw |-> Null, err |-> ProviderError("DescribeNatGateways")]
    ELSE IF Len(listed) # 1 THEN [gw |-> Null, err |-> Nil]
    ELSE [gw |-> listed[1], err |-> Nil]

\* natGatewayByID(svc, id): the gateway's state, or nil and an error when the
\* call fails or does not list exactly one gateway (main.go:308-322)
natGatewayByID(ok, listed) ==
    IF ~ok THEN [gw |-> Null, err |-> ProviderError("DescribeNatGateways")]
    ELSE IF Len(listed) # 1 THEN [gw |-> Null, err |-> "Could not find nat gateway"]
    ELSE [gw |-> listed[1], err |-> Nil]

\* the body of isNatGatewayDeleted on natGatewayByID's result: the error is
\* dropped and gw.State dereferenced, which panics on a nil gw (main.go:291-296)
GatewayDeleted(r) ==
    IF r.gw = Null THEN "panic"
    ELSE IF r.gw = "deleted" THEN "true"
    ELSE "false"

\* one test of the loop condition of DeleteNat (main.go:283)
isNatGatewayDeleted(p) ==
    LET s == w[p]
        id == s.ev.NatGatewayAWSID
    IN
    /\ s.pc = "DescribeNatGateways"
    /\ s.polls < MaxPolls
    /\ \E ok \in BOOLEAN :
          LET r == natGatewayByID(ok, DescribedGateways(id))
              deleted == GatewayDeleted(r)
              s1 == [s EXCEPT !.calls = Call(s, "DescribeNatGateways", id, r.err = Nil, r.gw),
                              !.polls = s.polls + 1,
                              !.lookup = Lookup("natGatewayByID", ok,
                                                Len(DescribedGateways(id)), r.gw, r.err)]
          IN  w' = [w EXCEPT ![p] =
                  CASE deleted = "panic" -> [s1 EXCEPT !.pc = "panic"]
                    [] deleted = "true" -> Return(s1, Nil)
                    [] OTHER -> [s1 EXCEPT !.pc = "Sleep"]]
    /\ UNCHANGED <<igwAttached, routeTables, nats>>

\* time.Sleep(time.Second * 3) in the loop body (main.go:284)
Sleep(p) ==
    /\ w[p].pc = "Sleep"
    /\ w' = [w EXCEPT ![p].pc = "DescribeNatGateways"]
    /\ UNCHANGED <<igwAttached, routeTables, nats>>

\* the cloud finishes deleting a NAT gateway
CloudDeletes ==
    /\ \E id \in DOMAIN nats :
          /\ nats[id] = "deleting"
          /\ nats' = [nats EXCEPT ![id] = "deleted"]
    /\ UNCHANGED <<w, igwAttached, routeTables>>

\* the cloud stops listing a deleted NAT gateway
CloudForgets ==
    /\ \E id \in DOMAIN nats :
          /\ nats[id] = "deleted"
          /\ nats' = [x \in DOMAIN nats \ {id} |-> nats[x]]
    /\ UNCHANGED <<w, igwAttached, routeTables>>

DeleteNat(p) ==
    \/ DeleteNatGateway(p)
    \/ isNatGatewayDeleted(p)
    \/ Sleep(p)

NextDelete ==
    \/ \E p \in Procs : CallDeleteNat(p) \/ DeleteNat(p)
    \/ CloudDeletes
    \/ CloudForgets

SpecDelete == Init /\ [][NextDelete]_vars

----------------------------------------------------------------------------
(* The methods of event.go:244-516: Event.Create, Event.Update, Event.Delete *)

\* the position of a method before a remote call
At(op) == "Event." \o op

\* a method returns err to its caller
Event_Return(s, err) == [s EXCEPT !.pc = "returned", !.err = err]

\* Event.Create: svc.AllocateAddress (event.go:252-258)
Event_Create_AllocateAddress(p) ==
    LET s == w[p] IN
    /\ s.pc = At("AllocateAddress")
    /\ \E ok \in BOOLEAN :
          LET id == FreshId("eipalloc", p, s.n)
              s1 == [s EXCEPT !.calls = Call(s, "AllocateAddress", "", ok, IF ok THEN id ELSE Null)]
          IN  w' = [w EXCEPT ![p] =
                  IF ~ok THEN Event_Return(s1, ProviderError("AllocateAddress"))
                  ELSE [s1 EXCEPT !.ev.NatGatewayAllocationID = id,
                                  !.ev.NatGatewayAllocationIP = FreshId("ip", p, s.n),
                                  !.pc = At("DescribeInternetGateways")]]
    /\ UNCHANGED <<igwAttached, routeTables, nats>>

\* Event.createInternetGateway: the lookup Event.internetGatewayByVPCID on
\* ev.VPCID (event.go:409-416, 360-382); Create assigns the returned "" to
\* InternetGatewayID on an error (event.go:261)
Event_internetGatewayByVPCID(p) ==
    LET s == w[p] IN
    /\ s.pc = At("DescribeInternetGateways")
    /\ \E ok \in BOOLEAN :
          LET listed == IF AttachedGateway(s.ev.VPCID) = "" THEN <<>>
                        ELSE <<AttachedGateway(s.ev.VPCID)>>
              ig == IF ok /\ Len(listed) # 0 THEN listed[1] ELSE Null
              err == IF ok THEN Nil ELSE ProviderError("DescribeInternetGateways")
              s1 == [s EXCEPT !.calls = Call(s, "DescribeInternetGateways", s.ev.VPCID, ok, ig),
                              !.lookup = Lookup("internetGatewayByVPCID", ok, Len(listed), ig, err)]
          IN  w' = [w EXCEPT ![p] =
                  IF err # Nil THEN Event_Return([s1 EXCEPT !.ev.InternetGatewayID = ""], err)
                  ELSE IF ig # Null
                  THEN [s1 EXCEPT !.ev.InternetGatewayID = ig, !.pc = At("CreateNatGateway")]
                  ELSE [s1 EXCEPT !.pc = At("CreateInternetGateway")]]
    /\ UNCHANGED <<igwAttached, routeTables, nats>>

\* Event.createInternetGateway: svc.CreateInternetGateway (event.go:418-421)
Event_createInternetGateway_Create(p) ==
    LET s == w[p] IN
    /\ s.pc = At("CreateInternetGateway")
    /\ \E ok \in BOOLEAN :
          LET id == NewInternetGatewayId
              s1 == [s EXCEPT !.calls = Call(s, "CreateInternetGateway", "", ok, IF ok THEN id ELSE Null)]
          IN  w' = [w EXCEPT ![p] =
                  IF ~ok THEN Event_Return([s1 EXCEPT !.ev.InternetGatewayID = ""],
                                           ProviderError("CreateInternetGateway"))
                  ELSE [s1 EXCEPT !.igw = id, !.pc = At("AttachInternetGateway")]]
    /\ UNCHANGED <<igwAttached, routeTables, nats>>

\* Event.createInternetGateway: svc.AttachInternetGateway to ev.VPCID
\* (event.go:423-433)
Event_createInternetGateway_Attach(p) ==
    LET s == w[p] IN
    /\ s.pc = At("AttachInternetGateway")
    /\ \E ok \in BOOLEAN :
          LET s1 == [s EXCEPT !.calls = Call(s, "AttachInternetGateway", s.igw, ok, Null)]
          IN  /\ ok => AttachedGateway(s.ev.VPCID) = "" /\ s.ev.VPCID \in VpcIds
              /\ w' = [w EXCEPT ![p] =
                    IF ~ok THEN Event_Return([s1 EXCEPT !.ev.InternetGatewayID = ""],
                                             ProviderError("AttachInternetGateway"))
                    ELSE [s1 EXCEPT !.ev.InternetGatewayID = s.igw, !.pc = At("CreateNatGateway")]]
              /\ igwAttached' = IF ok THEN [igwAttached EXCEPT ![s.ev.VPCID] = s.igw]
                                ELSE igwAttached
    /\ UNCHANGED <<routeTables, nats>>

\* Event.Create: svc.CreateNatGateway in ev.PublicNetworkAWSID (event.go:267-277)
Event_Create_CreateNatGateway(p) ==
    LET s == w[p] IN
    /\ s.pc = At("CreateNatGateway")
    /\ \E ok \in BOOLEAN :
          LET id == NewNatGatewayId
              s1 == [s EXCEPT !.calls = Call(s, "CreateNatGateway", s.ev.PublicNetworkAWSID,
                                             ok, IF ok THEN id ELSE Null)]
          IN  /\ w' = [w EXCEPT ![p] =
                    IF ~ok THEN Event_Return(s1, ProviderError("CreateNatGateway"))
                    ELSE [s1 EXCEPT !.ev.NatGatewayAWSID = id, !.gw = id,
                                    !.pc = At("WaitUntilNatGatewayAvailable")]]
              /\ nats' = IF ok THEN [x \in DOMAIN nats \cup {id} |->
                                        IF x = id THEN "present" ELSE nats[x]]
                         ELSE nats
    /\ UNCHANGED <<igwAttached, routeTables>>

\* Event.Create: svc.WaitUntilNatGatewayAvailable, then the range loop over
\* ev.RoutedNetworkAWSIDs (event.go:279-288)
Event_Create_WaitUntilNatGatewayAvailable(p) ==
    LET s == w[p] IN
    /\ s.pc = At("WaitUntilNatGatewayAvailable")
    /\ \E ok \in BOOLEAN :
          LET s1 == [s EXCEPT !.calls = Call(s, "WaitUntilNatGatewayAvailable", s.gw, ok, Null)]
          IN  w' = [w EXCEPT ![p] =
                  IF ~ok THEN Event_Return(s1, ProviderError("WaitUntilNatGatewayAvailable"))
                  ELSE IF Len(s.ev.RoutedNetworkAWSIDs) = 0 THEN Event_Return(s1, Nil)
                  ELSE [s1 EXCEPT !.i = 1, !.pc = At("DescribeRouteTables")]]
    /\ UNCHANGED <<igwAttached, routeTables, nats>>

Event_Create(p) ==
    \/ Event_Create_AllocateAddress(p)
    \/ Event_internetGatewayByVPCID(p)
    \/ Event_createInternetGateway_Create(p)
    \/ Event_createInternetGateway_Attach(p)
    \/ Event_Create_CreateNatGateway(p)
    \/ Event_Create_WaitUntilNatGatewayAvailable(p)

\* Event.routeTableIsConfigured(rt): the scan for a 0.0.0.0/0 route to
\* ev.NatGatewayAWSID; "panic" on a nil DestinationCidrBlock or, on a
\* 0.0.0.0/0 route, a nil NatGatewayId (event.go:492-500)
RECURSIVE Event_ScanRoutes(_, _, _)
Event_ScanRoutes(ev, routes, k) ==
    IF k > Len(routes) THEN "false"
    ELSE IF routes[k].dest = Null THEN "panic"
    ELSE IF routes[k].dest = DefaultCidr /\ routes[k].nat = Null THEN "panic"
    ELSE IF routes[k].dest = DefaultCidr /\ routes[k].nat = ev.NatGatewayAWSID THEN "true"
    ELSE Event_ScanRoutes(ev, routes, k + 1)

Event_routeTableIsConfigured(ev, rt) == Event_ScanRoutes(ev, rt.routes, 1)

\* the end of an iteration of the range loop of Create and Update
\* (event.go:288-300, 311-327)
Event_NextSubnet(s) ==
    IF s.i < Len(s.ev.RoutedNetworkAWSIDs)
    THEN [s EXCEPT !.i = s.i + 1, !.rt = NoTable, !.pc = At("DescribeRouteTables")]
    ELSE Event_Return([s EXCEPT !.rt = NoTable], Nil)

\* Event_LoopGateway with Create routing to the record's identifier as it was
\* when Create was called
Event_LoopGateway_FromCaller(s) == s.start.ev.NatGatewayAWSID

\* the gateway the loop routes to: *gwresp.NatGateway.NatGatewayId in Create
\* (event.go:294), ev.NatGatewayAWSID in Update (event.go:321)
Event_LoopGateway(s) == IF s.wf = "create" THEN s.gw ELSE s.ev.NatGatewayAWSID

\* after ev.createRouteTable returned rt: Create installs the route, Update
\* scans the table first (event.go:317-319)
Event_TableResolved(s, rt) ==
    LET scan == Event_routeTableIsConfigured(s.ev, rt)
    IN  IF s.wf = "update" /\ scan = "panic" THEN [s EXCEPT !.rt = rt, !.pc = "panic"]
        ELSE IF s.wf = "update" /\ scan = "true" THEN Event_NextSubnet(s)
        ELSE [s EXCEPT !.rt = rt, !.pc = At("CreateRoute")]

\* Event.createRouteTable: the lookup Event.routingTableBySubnetID
\* (event.go:437-444, 384-406)
Event_routingTableBySubnetID(p) ==
    LET s == w[p]
        subnet == s.ev.RoutedNetworkAWSIDs[s.i]
    IN
    /\ s.pc = At("DescribeRouteTables")
    /\ \E ok \in BOOLEAN :
          LET rt == IF ok THEN FirstAssociated(subnet) ELSE NoTable
              err == IF ok THEN Nil ELSE ProviderError("DescribeRouteTables")
              s1 == [s EXCEPT !.calls = Call(s, "DescribeRouteTables", subnet, ok, rt.id),
                              !.lookup = Lookup("routingTableBySubnetID", ok,
                                                Cardinality(AssociatedTables(subnet)), rt.id, err)]
          IN  w' = [w EXCEPT ![p] =
                  IF err # Nil THEN Event_Return(s1, err)
                  ELSE IF rt.id # Null THEN Event_TableResolved(s1, rt)
                  ELSE [s1 EXCEPT !.pc = At("CreateRouteTable")]]
    /\ UNCHANGED <<igwAttached, routeTables, nats>>

\* Event.createRouteTable: svc.CreateRouteTable in ev.VPCID (event.go:446-453)
Event_createRouteTable_Create(p) ==
    LET s == w[p] IN
    /\ s.pc = At("CreateRouteTable")
    /\ \E ok \in BOOLEAN :
          LET id == RtbId(Len(routeTables) + 1)
              s1 == [s EXCEPT !.calls = Call(s, "CreateRouteTable", s.ev.VPCID, ok,
                                             IF ok THEN id ELSE Null)]
          IN  /\ w' = [w EXCEPT ![p] =
                    IF ~ok THEN Event_Return(s1, ProviderError("CreateRouteTable"))
                    ELSE [s1 EXCEPT !.rt = [id |-> id, routes |-> <<LocalRoute>>],
                                    !.pc = At("AssociateRouteTable")]]
              /\ routeTables' =
                    IF ok THEN Append(routeTables, [subnet |-> "", routes |-> <<LocalRoute>>])
                    ELSE routeTables
    /\ UNCHANGED <<igwAttached, nats>>

\* Event.createRouteTable: svc.AssociateRouteTable (event.go:455-465)
Event_createRouteTable_Associate(p) ==
    LET s == w[p]
        subnet == s.ev.RoutedNetworkAWSIDs[s.i]
    IN
    /\ s.pc = At("AssociateRouteTable")
    /\ \E ok \in BOOLEAN :
          LET s1 == [s EXCEPT !.calls = Call(s, "AssociateRouteTable", subnet, ok, s.rt.id)]
          IN  /\ ok => AssociatedTables(subnet) = {}
              /\ w' = [w EXCEPT ![p] =
                    IF ~ok THEN Event_Return(s1, ProviderError("AssociateRouteTable"))
                    ELSE Event_TableResolved(s1, s.rt)]
              /\ routeTables' =
                    IF ok THEN [routeTables EXCEPT ![TableIndex(s.rt.id)].subnet = subnet]
                    ELSE routeTables
    /\ UNCHANGED <<igwAttached, nats>>

\* Event.createNatGatewayRoutes: svc.CreateRoute of 0.0.0.0/0 to gwID
\* (event.go:468-481)
Event_createNatGatewayRoutes(p) ==
    LET s == w[p]
        gwID == Event_LoopGateway(s)
    IN
    /\ s.pc = At("CreateRoute")
    /\ \E ok \in BOOLEAN :
          LET k == TableIndex(s.rt.id)
              s1 == [s EXCEPT !.calls = Call(s, "CreateRoute", s.rt.id, ok, gwID)]
          IN  /\ ok => /\ ~HasDestination(routeTables[k].routes, DefaultCidr)
                       /\ gwID \in DOMAIN nats
              /\ w' = [w EXCEPT ![p] =
                    IF ~ok THEN Event_Return(s1, ProviderError("CreateRoute"))
                    ELSE Event_NextSubnet(s1)]
              /\ routeTables' =
                    IF ok THEN [routeTables EXCEPT ![k].routes = Append(@, NatRoute(gwID))]
                    ELSE routeTables
    /\ UNCHANGED <<igwAttached, nats>>

\* the loop of Event.Create and of Event.Update, which is that loop alone
Event_Update(p) ==
    \/ Event_routingTableBySubnetID(p)
    \/ Event_createRouteTable_Create(p)
    \/ Event_createRouteTable_Associate(p)
    \/ Event_createNatGatewayRoutes(p)

\* Event.Delete: svc.DeleteNatGateway of ev.NatGatewayAWSID (event.go:338-345)
Event_Delete_DeleteNatGateway(p) ==
    LET s == w[p]
        id == s.ev.NatGatewayAWSID
    IN
    /\ s.pc = At("DeleteNatGateway")
    /\ \E ok \in BOOLEAN :
          LET s1 == [s EXCEPT !.calls = Call(s, "DeleteNatGateway", id, ok, Null)]
          IN  /\ ok => id \in DOMAIN nats
              /\ w' = [w EXCEPT ![p] =
                    IF ~ok THEN Event_Return(s1, ProviderError("DeleteNatGateway"))
                    ELSE [s1 EXCEPT !.pc = At("DescribeNatGateways")]]
              /\ nats' = IF ok /\ nats[id] = "present"
                         THEN [nats EXCEPT ![id] = "deleting"] ELSE nats
    /\ UNCHANGED <<igwAttached, routeTables>>

\* Event.natGatewayByID(svc, id) (event.go:502-516)
Event_natGatewayByID(ok, listed) ==
    IF ~ok THEN [gw |-> Null, err |-> ProviderError("DescribeNatGateways")]
    ELSE IF Len(listed) # 1 THEN [gw |-> Null, err |-> "Could not find nat gateway"]
    ELSE [gw |-> listed[1], err |-> Nil]

\* Event.isNatGatewayDeleted, the loop condition of Event.Delete: the error is
\* dropped and gw.State dereferenced (event.go:347, 483-490)
Event_isNatGatewayDeleted(p) ==
    LET s == w[p]
        id == s.ev.NatGatewayAWSID
    IN
    /\ s.pc = At("DescribeNatGateways")
    /\ s.polls < MaxPolls
    /\ \E ok \in BOOLEAN :
          LET r == Event_natGatewayByID(ok, DescribedGateways(id))
              s1 == [s EXCEPT !.calls = Call(s, "DescribeNatGateways", id, r.err = Nil, r.gw),
                              !.polls = s.polls + 1,
                              !.lookup = Lookup("natGatewayByID", ok,
                                                Len(DescribedGateways(id)), r.gw, r.err)]
          IN  w' = [w EXCEPT ![p] =
                  IF r.gw = Null THEN [s1 EXCEPT !.pc = "panic"]
                  ELSE IF r.gw = "deleted" THEN Event_Return(s1, Nil)
                  ELSE [s1 EXCEPT !.pc = At("Sleep")]]
    /\ UNCHANGED <<igwAttached, routeTables, nats>>

\* time.Sleep(time.Second * 3) (event.go:348)
Event_Delete_Sleep(p) ==
    /\ w[p].pc = At("Sleep")
    /\ w' = [w EXCEPT ![p].pc = At("DescribeNatGateways")]
    /\ UNCHANGED <<igwAttached, routeTables, nats>>

Event_Delete(p) ==
    \/ Event_Delete_DeleteNatGateway(p)
    \/ Event_isNatGatewayDeleted(p)
    \/ Event_Delete_Sleep(p)

----------------------------------------------------------------------------
(* A caller runs a workflow by its function, then by its method on the same
   record and account *)

\* the records the workflows are called on
StyleEvents ==
    {Unmarshal(Payload(present, routed), Event) :
        present \in {StringKeys, StringKeys \ {"nat_gateway_aws_id"}},
        routed \in RoutedLists}

Workflows == {"create", "update", "delete"}

\* the first position of CreateNat, UpdateNat, DeleteNat
Enter(s, wf) ==
    CASE wf = "create" -> [s EXCEPT !.wf = wf, !.pc = "AllocateAddress"]
      [] wf = "update" ->
            IF Len(s.ev.RoutedNetworkAWSIDs) = 0 THEN Return([s EXCEPT !.wf = wf], Nil)
            ELSE [s EXCEPT !.wf = wf, !.i = 1, !.pc = "DescribeRouteTables"]
      [] wf = "delete" -> [s EXCEPT !.wf = wf, !.pc = "DeleteNatGateway"]

\* the first position of Event.Create, Event.Update, Event.Delete
Event_Enter(s, wf) ==
    CASE wf = "create" -> [s EXCEPT !.wf = wf, !.pc = At("AllocateAddress")]
      [] wf = "update" ->
            IF Len(s.ev.RoutedNetworkAWSIDs) = 0 THEN Event_Return([s EXCEPT !.wf = wf], Nil)
            ELSE [s EXCEPT !.wf = wf, !.i = 1, !.pc = At("DescribeRouteTables")]
      [] wf = "delete" -> [s EXCEPT !.wf = wf, !.pc = At("DeleteNatGateway")]

\* CreateNat(&ev), UpdateNat(&ev) or DeleteNat(&ev) is called
CallFunction(p) ==
    /\ w[p].pc = "idle"
    /\ \E ev \in StyleEvents, wf \in Workflows :
          w' = [w EXCEPT ![p] =
                  Enter([Idle EXCEPT !.style = "direct", !.ev = ev,
                                     !.start = [ev |-> ev, igwAttached |-> igwAttached,
                                                routeTables |-> routeTables, nats |-> nats]],
                        wf)]
    /\ UNCHANGED <<igwAttached, routeTables, nats>>

Finished(s) == s.pc \in {"returned", "panic"}

\* the function has returned or crashed; the method of the same workflow is
\* called on the record as it was, against the account as it was
CallMethod(p) ==
    LET s == w[p] IN
    /\ s.style = "direct" /\ Finished(s)
    /\ w' = [w EXCEPT ![p] =
                Event_Enter([Idle EXCEPT !.style = "method", !.ev = s.start.ev,
                                         !.start = s.start,
                                         !.first = [pc |-> s.pc, wf |-> s.wf, calls |-> s.calls,
                                                    err |-> s.err, ev |-> s.ev]],
                            s.wf)]
    /\ igwAttached' = s.start.igwAttached
    /\ routeTables' = s.start.routeTables
    /\ nats' = s.start.nats

NextStyles ==
    \/ \E p \in Procs :
          \/ CallFunction(p) \/ CreateNat(p) \/ RouteLoop(p) \/ DeleteNat(p)
          \/ CallMethod(p) \/ Event_Create(p) \/ Event_Update(p) \/ Event_Delete(p)
    \/ CloudDeletes
    \/ CloudForgets

SpecStyles == Init /\ [][NextStyles]_vars

----------------------------------------------------------------------------
(* The subscriptions of main: nc.Subscribe(subject, eventHandler) gives each
   subject a delivery goroutine of its own, which calls eventHandler for one
   message after the other *)

Subscriptions == Subjects

\* the messages a subscription receives: requests on its subject that name
\* the same VPC and routed subnet
Inbound(sub) == {[subject |-> sub, data |-> Payload(StringKeys, <<"subnet-a">>)]}

InitSubscriptions ==
    /\ w = [sub \in Subscriptions |-> Idle]
    /\ igwAttached \in [VpcIds -> {"", "igw-0"}]
    /\ routeTables \in InitialTables
    /\ nats = [id \in {"nat-0"} |-> "present"]

\* the goroutine of a subscription is between two calls of eventHandler: it
\* has called none yet, or its last call has returned
Ready(sub) == w[sub].pc \in {"idle", "done"}

\* the goroutine of a subscription, whose last call of eventHandler has
\* returned, calls eventHandler for the next message
Deliver(sub, m) ==
    /\ Ready(sub)
    /\ w[sub].n < MaxMsgs
    /\ w' = [w EXCEPT ![sub] = Handle([Idle EXCEPT !.n = w[sub].n + 1, !.msg = m], m)]
    /\ UNCHANGED <<igwAttached, routeTables, nats>>

NextSubscriptions ==
    \E sub \in Subscriptions :
        \/ \E m \in Inbound(sub) : Deliver(sub, m)
        \/ CreateNat(sub)
        \/ RouteLoop(sub)

SpecSubscriptions == InitSubscriptions /\ [][NextSubscriptions]_vars

----------------------------------------------------------------------------
(* Vocabulary of the properties *)

\* a payload lacks a string field: the key is absent or its value is empty
Lacks(data, key) == key \notin DOMAIN data.object \/ data.object[key] = ""

LacksRouted(data) ==
    \/ "routed_networks_aws_ids" \notin DOMAIN data.object
    \/ Len(data.object["routed_networks_aws_ids"]) = 0

\* the error kinds of the fields a create or update payload lacks
MissingKinds(data) ==
    {k \in {ErrDatacenterIDInvalid, ErrDatacenterRegionInvalid,
            ErrDatacenterCredentialsInvalid, ErrNetworkIDInvalid, ErrRoutedNetworksEmpty} :
        \/ k = ErrDatacenterIDInvalid /\ Lacks(data, "vpc_id")
        \/ k = ErrDatacenterRegionInvalid /\ Lacks(data, "datacenter_region")
        \/ k = ErrDatacenterCredentialsInvalid
              /\ (Lacks(data, "datacenter_secret") \/ Lacks(data, "datacenter_token"))
        \/ k = ErrNetworkIDInvalid /\ Lacks(data, "public_network_aws_id")
        \/ k = ErrRoutedNetworksEmpty /\ LacksRouted(data)}

\* the payload has the fields every operation needs
HasCommonFields(data) ==
    ~(\/ Lacks(data, "vpc_id") \/ Lacks(data, "datacenter_region")
      \/ Lacks(data, "datacenter_secret") \/ Lacks(data, "datacenter_token"))

\* the request a handler is handling, or has handled and not yet discarded
Handling(s) == s.style = "handler" /\ s.pc # "idle"

IsCreateOrUpdate(s) == s.msg.subject \in {"nat.create.aws", "nat.update.aws"}
IsDelete(s) == s.msg.subject = "nat.delete.aws"

\* exactly one reply, on <subject>.error, carrying the error message
OneErrorReply(s, message) ==
    /\ Len(s.replies) = 1
    /\ s.replies[1].subject = s.msg.subject \o ".error"
    /\ s.replies[1].data.valid
    /\ "error_message" \in DOMAIN s.replies[1].data.object
    /\ s.replies[1].data.object["error_message"] = message

\* exactly one reply, on <subject>.done
OnlyDoneReply(s) ==
    /\ Len(s.replies) = 1
    /\ s.replies[1].subject = s.msg.subject \o ".done"

\* exactly one reply, on <subject>.done, with no error_message
OneDoneReply(s) ==
    /\ OnlyDoneReply(s)
    /\ "error_message" \notin DOMAIN s.replies[1].data.object

CallsOf(s, ops) == {k \in 1..Len(s.calls) : s.calls[k].op \in ops}

RouteOps == {"DescribeRouteTables", "CreateRouteTable", "AssociateRouteTable", "CreateRoute"}

----------------------------------------------------------------------------
(* C1 *)

\* C1: a create or update request that lacks vpc_id, datacenter_region, a
\* credential field, public_network_aws_id, or whose routed_networks_aws_ids is
\* empty, ends with a single error reply whose kind is that of a field the
\* request lacks, and no remote call is issued while it is handled
C1_InvalidRequestFailsBeforeAnyCall ==
    \A p \in Procs :
        LET s == w[p] IN
        (Handling(s) /\ IsCreateOrUpdate(s) /\ s.msg.data.valid
            /\ MissingKinds(s.msg.data) # {})
        => /\ s.pc = "done"
           /\ s.calls = <<>>
           /\ s.err \in MissingKinds(s.msg.data)
           /\ OneErrorReply(s, s.err)

\* C1 witness: an update request that lacks only public_network_aws_id was
\* rejected with the network id kind
C1_Witness ==
    \E p \in Procs :
        LET s == w[p] IN
        /\ Handling(s) /\ s.msg.subject = "nat.update.aws" /\ s.msg.data.valid
        /\ MissingKinds(s.msg.data) = {ErrNetworkIDInvalid}
        /\ s.pc = "done" /\ s.calls = <<>>
        /\ OneErrorReply(s, ErrNetworkIDInvalid)

----------------------------------------------------------------------------
(* C2 *)

\* C2 as stated: a delete request that lacks nat_gateway_aws_id fails with the
\* NAT gateway ID kind whatever its other fields are
C2_Original ==
    \A p \in Procs :
        LET s == w[p] IN
        (Handling(s) /\ IsDelete(s) /\ s.msg.data.valid
            /\ Lacks(s.msg.data, "nat_gateway_aws_id"))
        => OneErrorReply(s, ErrNatGatewayIDInvalid)

\* C2 amended: a delete request that lacks nat_gateway_aws_id fails validation
\* with no remote call; its kind is the NAT gateway ID kind when vpc_id,
\* datacenter_region and both credential fields are present, and otherwise the
\* kind of one of those fields the request lacks
C2_DeleteWithoutGatewayIdFails ==
    \A p \in Procs :
        LET s == w[p] IN
        (Handling(s) /\ IsDelete(s) /\ s.msg.data.valid
            /\ Lacks(s.msg.data, "nat_gateway_aws_id"))
        => /\ s.pc = "done"
           /\ s.calls = <<>>
           /\ OneErrorReply(s, s.err)
           /\ IF HasCommonFields(s.msg.data)
              THEN s.err = ErrNatGatewayIDInvalid
              ELSE s.err \in MissingKinds(s.msg.data)
                              \ {ErrNetworkIDInvalid, ErrRoutedNetworksEmpty}

\* C2 witness: a delete request that lacks only nat_gateway_aws_id was rejected
\* with the NAT gateway ID kind
C2_Witness ==
    \E p \in Procs :
        LET s == w[p] IN
        /\ Handling(s) /\ IsDelete(s) /\ s.msg.data.valid
        /\ Lacks(s.msg.data, "nat_gateway_aws_id")
        /\ HasCommonFields(s.msg.data)
        /\ s.pc = "done"
        /\ OneErrorReply(s, ErrNatGatewayIDInvalid)

----------------------------------------------------------------------------
(* C3 *)

\* the handling ran into an error: the payload does not decode, the request
\* lacks a field its operation needs, or a remote call or wait failed
LacksRequired(s) ==
    /\ s.msg.data.valid
    /\ IF IsDelete(s)
       THEN ~HasCommonFields(s.msg.data) \/ Lacks(s.msg.data, "nat_gateway_aws_id")
       ELSE MissingKinds(s.msg.data) # {}

FailedCalls(s) == {k \in 1..Len(s.calls) : ~s.calls[k].ok}

ErrorPath(s) == ~s.msg.data.valid \/ LacksRequired(s) \/ FailedCalls(s) # {}

\* C3: a handled message whose processing ends in a decode error, a validation
\* error or a failed remote call or wait has produced exactly one reply, on
\* <subject>.error; and no reply is published before the handling ends
C3_ErrorPathRepliesOnce ==
    \A p \in Procs :
        LET s == w[p] IN
        /\ (Handling(s) /\ ErrorPath(s))
              => /\ s.pc = "done"
                 /\ Len(s.replies) = 1
                 /\ s.replies[1].subject = s.msg.subject \o ".error"
        /\ (Handling(s) /\ s.pc # "done") => s.replies = <<>>

\* C3 witness: a create request failed at CreateRoute and one error reply
\* carries the provider's message
C3_Witness ==
    \E p \in Procs :
        LET s == w[p] IN
        /\ Handling(s) /\ s.pc = "done" /\ s.wf = "create"
        /\ Len(s.calls) > 0
        /\ s.calls[Len(s.calls)].op = "CreateRoute"
        /\ ~s.calls[Len(s.calls)].ok
        /\ OneErrorReply(s, ProviderError("CreateRoute"))

----------------------------------------------------------------------------
(* C4 *)

\* the step of Create a remote call belongs to
Stage(op) ==
    CASE op = "AllocateAddress" -> 1
      [] op = "DescribeInternetGateways" -> 2
      [] op = "CreateInternetGateway" -> 3
      [] op = "AttachInternetGateway" -> 4
      [] op = "CreateNatGateway" -> 5
      [] op = "WaitUntilNatGatewayAvailable" -> 6
      [] op \in RouteOps -> 7

\* the calls that must have succeeded before a call of Create is issued
Before(op) ==
    CASE op = "AllocateAddress" -> {}
      [] op = "DescribeInternetGateways" -> {"AllocateAddress"}
      [] op = "CreateInternetGateway" -> {"AllocateAddress", "DescribeInternetGateways"}
      [] op = "AttachInternetGateway" ->
            {"AllocateAddress", "DescribeInternetGateways", "CreateInternetGateway"}
      [] op = "CreateNatGateway" -> {"AllocateAddress", "DescribeInternetGateways"}
      [] op = "WaitUntilNatGatewayAvailable" ->
            {"AllocateAddress", "DescribeInternetGateways", "CreateNatGateway"}
      [] op \in RouteOps ->
            {"AllocateAddress", "DescribeInternetGateways", "CreateNatGateway",
             "WaitUntilNatGatewayAvailable"}

\* C4: the calls of Create follow the order allocate address, internet gateway
\* lookup (then create and attach), create NAT gateway, wait until available,
\* route tables and routes; every call is issued after the calls of the steps
\* before it succeeded, so no route-table or route call precedes a successful
\* wait; a failed wait is the last call and Create returns its error
C4_CreateOrder ==
    \A p \in Procs :
        LET s == w[p]
            n == Len(s.calls)
        IN  s.wf = "create" =>
            /\ \A k \in 1..n :
                  /\ \A b \in Before(s.calls[k].op) :
                        \E j \in 1..(k - 1) : s.calls[j].op = b /\ s.calls[j].ok
                  /\ \A j \in 1..(k - 1) :
                        /\ Stage(s.calls[j].op) <= Stage(s.calls[k].op)
                        /\ Stage(s.calls[j].op) = Stage(s.calls[k].op)
                              => s.calls[k].op \in RouteOps
            /\ \A k \in 1..n :
                  (s.calls[k].op = "WaitUntilNatGatewayAvailable" /\ ~s.calls[k].ok)
                  => /\ k = n
                     /\ s.pc \in {"done", "returned"}
                     /\ s.err = ProviderError("WaitUntilNatGatewayAvailable")
                     /\ CallsOf(s, RouteOps) = {}

\* C4 witness: a Create went through every step, the wait returned and a route
\* was installed after it
C4_Witness ==
    \E p \in Procs :
        LET s == w[p] IN
        /\ s.wf = "create" /\ s.pc = "done" /\ s.err = Nil
        /\ CallsOf(s, {"CreateInternetGateway"}) # {}
        /\ \E j, k \in 1..Len(s.calls) :
              /\ j < k
              /\ s.calls[j].op = "WaitUntilNatGatewayAvailable" /\ s.calls[j].ok
              /\ s.calls[k].op = "CreateRoute" /\ s.calls[k].ok

----------------------------------------------------------------------------
(* C5 *)

\* the calls one iteration of the route loop issues, in order: lookup, then
\* create and associate when the lookup found no table, then CreateRoute
FollowsInIteration(prev, c) ==
    \/ prev.op = "DescribeRouteTables" /\ prev.res = Null /\ c.op = "CreateRouteTable"
    \/ prev.op = "DescribeRouteTables" /\ prev.res # Null /\ c.op = "CreateRoute"
    \/ prev.op = "CreateRouteTable" /\ c.op = "AssociateRouteTable"
    \/ prev.op = "AssociateRouteTable" /\ c.op = "CreateRoute"

\* C5: the route calls of a Create on routed subnets [s1..sn] go through the
\* list in order, one subnet at a time: a subnet's first call follows the
\* successful CreateRoute of the subnet before it; a failed call is the last
\* call, its error is the one reported, and every route installed before it
\* is still in its table
C5_RoutesInListOrder ==
    \A p \in Procs :
        LET s == w[p]
            routed == s.ev.RoutedNetworkAWSIDs
        IN  s.wf = "create" =>
            \A k \in CallsOf(s, RouteOps) :
                LET c == s.calls[k]
                    prev == s.calls[k - 1]
                IN  /\ c.i \in 1..Len(routed)
                    /\ c.op \in {"DescribeRouteTables", "AssociateRouteTable"}
                          => c.arg = routed[c.i]
                    /\ IF prev.op \notin RouteOps
                       THEN c.i = 1 /\ c.op = "DescribeRouteTables"
                       ELSE \/ c.i = prev.i /\ prev.ok /\ FollowsInIteration(prev, c)
                            \/ /\ c.i = prev.i + 1
                               /\ prev.op = "CreateRoute" /\ prev.ok
                               /\ c.op = "DescribeRouteTables"
                    /\ c.op = "CreateRoute"
                          => /\ routeTables[TableIndex(c.arg)].subnet = routed[c.i]
                             /\ c.res = s.ev.NatGatewayAWSID
                    /\ (c.op = "CreateRoute" /\ c.ok)
                          => \E r \in 1..Len(routeTables[TableIndex(c.arg)].routes) :
                                routeTables[TableIndex(c.arg)].routes[r] = NatRoute(c.res)
                    /\ ~c.ok
                          => /\ k = Len(s.calls)
                             /\ s.pc \in {"done", "returned"}
                             /\ s.err = ProviderError(c.op)
                             /\ s.style = "handler" => OneErrorReply(s, s.err)

\* C5 witness: a Create on [subnet-a, subnet-b] installed subnet-a's route and
\* failed on subnet-b's CreateRoute; subnet-a's route is in place
C5_Witness ==
    \E p \in Procs :
        LET s == w[p]
            n == Len(s.calls)
        IN  /\ s.wf = "create" /\ s.pc = "done"
            /\ s.ev.RoutedNetworkAWSIDs = <<"subnet-a", "subnet-b">>
            /\ n > 0
            /\ s.calls[n].op = "CreateRoute" /\ s.calls[n].i = 2 /\ ~s.calls[n].ok
            /\ \E k \in 1..n :
                  /\ s.calls[k].op = "CreateRoute" /\ s.calls[k].i = 1 /\ s.calls[k].ok
                  /\ routeTables[TableIndex(s.calls[k].arg)].subnet = "subnet-a"
                  /\ \E r \in 1..Len(routeTables[TableIndex(s.calls[k].arg)].routes) :
                        routeTables[TableIndex(s.calls[k].arg)].routes[r]
                            = NatRoute(s.ev.NatGatewayAWSID)

----------------------------------------------------------------------------
(* C6 *)

\* C6: in a Create, when the lookup by VPC attachment returns a gateway, no
\* CreateInternetGateway or AttachInternetGateway call is issued and the
\* record's InternetGatewayID is that gateway, the one attached to the VPC;
\* when it returns none, the VPC had none, at most one gateway is created and
\* attached, and once Create goes on to the NAT gateway exactly one was
\* created and attached and the record holds its identifier
C6_InternetGatewayReused ==
    \A p \in Procs :
        LET s == w[p]
            lookups == CallsOf(s, {"DescribeInternetGateways"})
            creates == CallsOf(s, {"CreateInternetGateway"})
            attaches == CallsOf(s, {"AttachInternetGateway"})
            attached == {k \in attaches : s.calls[k].ok}
        IN  s.wf = "create" =>
            /\ Cardinality(lookups) <= 1
            /\ \A d \in lookups :
                  IF ~s.calls[d].ok THEN creates = {} /\ attaches = {}
                  ELSE IF s.calls[d].res # Null
                  THEN /\ creates = {} /\ attaches = {}
                       /\ s.ev.InternetGatewayID = s.calls[d].res
                       /\ igwAttached[s.ev.VPCID] = s.calls[d].res
                  ELSE /\ Cardinality(creates) <= 1
                       /\ Cardinality(attaches) <= 1
                       /\ attached = {} => igwAttached[s.ev.VPCID] = ""
                       /\ CallsOf(s, {"CreateNatGateway"}) # {}
                             => \E c \in creates : \E a \in attached :
                                   /\ s.calls[c].ok /\ c < a
                                   /\ s.calls[a].arg = s.calls[c].res
                                   /\ s.ev.InternetGatewayID = s.calls[c].res
                                   /\ igwAttached[s.ev.VPCID] = s.calls[c].res

\* C6 witness: a Create succeeded on a VPC whose internet gateway an earlier
\* Create had created and attached, and reused it
C6_Witness ==
    \E p \in Procs :
        LET s == w[p] IN
        /\ s.wf = "create" /\ s.pc = "done" /\ s.err = Nil
        /\ s.n = 2
        /\ CallsOf(s, {"CreateInternetGateway", "AttachInternetGateway"}) = {}
        /\ s.ev.InternetGatewayID = "igw-1"
        /\ igwAttached[s.ev.VPCID] = "igw-1"

----------------------------------------------------------------------------
(* C7 *)

\* C7: an Update run again with the request it has just handled successfully
\* issues no CreateRoute, CreateRouteTable or AssociateRouteTable call: every
\* routed subnet's table holds the 0.0.0.0/0 route to the request's NAT
\* gateway, the scan finds it, and the run succeeds whenever its lookups are
\* answered
C7_UpdateRerunCreatesNothing ==
    \A p \in Procs :
        LET s == w[p] IN
        (Handling(s) /\ s.rerun /\ s.wf = "update")
        => /\ \A k \in 1..Len(s.calls) : s.calls[k].op = "DescribeRouteTables"
           /\ \A k \in 1..Len(s.calls) :
                 s.calls[k].ok =>
                    \E x \in AssociatedTables(s.calls[k].arg) :
                       \E r \in 1..Len(routeTables[x].routes) :
                          routeTables[x].routes[r] = NatRoute(s.ev.NatGatewayAWSID)
           /\ s.pc \in {"DescribeRouteTables", "done"}
           /\ (s.pc = "done" /\ FailedCalls(s) = {})
                 => /\ s.err = Nil
                    /\ OnlyDoneReply(s)
                    /\ Len(s.calls) = Len(s.ev.RoutedNetworkAWSIDs)

\* C7 witness: the second run of an update on [subnet-a, subnet-b] succeeded
\* with two lookups and no other call
C7_Witness ==
    \E p \in Procs :
        LET s == w[p] IN
        /\ Handling(s) /\ s.rerun /\ s.wf = "update"
        /\ s.pc = "done" /\ s.err = Nil
        /\ s.ev.RoutedNetworkAWSIDs = <<"subnet-a", "subnet-b">>
        /\ Len(s.calls) = 2
        /\ OnlyDoneReply(s)

----------------------------------------------------------------------------
(* C8 *)

\* a reply on <subject>.done has been published
DonePublished(s) ==
    \E r \in 1..Len(s.replies) : s.replies[r].subject = s.msg.subject \o ".done"

\* C8: a delete request with a valid nat_gateway_aws_id, handled end to end,
\* issues DeleteNatGateway first and then polls describe; a .done reply, with
\* no error_message, is published only after a poll that reports "deleted",
\* which is the last call and the (k+1)-th poll after k polls that report
\* another state
C8_DeleteHandledEndToEnd ==
    \A p \in Procs :
        LET s == w[p]
            n == Len(s.calls)
            polls == CallsOf(s, {"DescribeNatGateways"})
            notDeleted == {k \in polls : s.calls[k].res # "deleted"}
        IN  (Handling(s) /\ IsDelete(s) /\ s.msg.data.valid /\ ~LacksRequired(s))
            => /\ n > 0
               /\ s.calls[1].op = "DeleteNatGateway"
               /\ s.calls[1].arg = s.msg.data.object["nat_gateway_aws_id"]
               /\ DonePublished(s)
                     => /\ OneDoneReply(s)
                        /\ s.calls[n].op = "DescribeNatGateways"
                        /\ s.calls[n].res = "deleted"
                        /\ Cardinality(polls) = Cardinality(notDeleted) + 1

----------------------------------------------------------------------------
(* C9 *)

\* C9: a validated message runs the workflow its subject names, create on
\* nat.create.aws, update on nat.update.aws and delete on nat.delete.aws, and
\* a .done reply is published only once that workflow has returned without
\* error
C9_SelectedWorkflowRuns ==
    \A p \in Procs :
        LET s == w[p] IN
        (Handling(s) /\ s.msg.data.valid /\ ~LacksRequired(s))
        => /\ s.wf = ActionOf(s.msg.subject)
           /\ DonePublished(s)
                 => s.pc = "done" /\ s.err = Nil /\ FailedCalls(s) = {}

----------------------------------------------------------------------------
(* C10 *)

\* C10: in the delete-wait poll a describe call that returns an error, or does
\* not find the gateway, counts as "not yet deleted": the loop sleeps and
\* polls again, and DeleteNat neither returns an error nor crashes
C10_DescribeErrorKeepsPolling ==
    \A p \in Procs :
        LET s == w[p]
            n == Len(s.calls)
        IN  (s.wf = "delete" /\ n > 0
                /\ s.calls[n].op = "DescribeNatGateways" /\ ~s.calls[n].ok)
            => s.pc \in {"Sleep", "DescribeNatGateways"}

----------------------------------------------------------------------------
(* C11 *)

\* C11: a message on subject S whose payload does not decode is answered by
\* exactly one message, on S.error, whose body is the payload's bytes as they
\* arrived; the record is not validated (no error message is set), no remote
\* call is issued, no workflow is entered and nothing is published on S.done
C11_UndecodablePayloadEchoed ==
    \A p \in Procs :
        LET s == w[p] IN
        (Handling(s) /\ ~s.msg.data.valid)
        => /\ s.pc = "done"
           /\ s.replies = <<[subject |-> s.msg.subject \o ".error", data |-> s.msg.data]>>
           /\ s.calls = <<>>
           /\ s.wf = "none"
           /\ s.ev.ErrorMessage = ""

\* C11 witness: a cut-short payload on nat.create.aws came back on
\* nat.create.aws.error
C11_Witness ==
    \E p \in Procs :
        LET s == w[p] IN
        /\ Handling(s)
        /\ s.msg = [subject |-> "nat.create.aws", data |-> Truncated]
        /\ s.replies = <<[subject |-> "nat.create.aws.error", data |-> Truncated]>>

----------------------------------------------------------------------------
(* C12 *)

\* the value a reply's body gives a wire name
ReplyField(s, key) == s.replies[1].data.object[key]

\* C12: a create request with n routed subnets whose remote calls all succeed
\* ends with n route-table resolutions, one per subnet of the list, one
\* CreateRoute per resolved table, each installing 0.0.0.0/0 towards the NAT
\* gateway this request created, and one reply, on nat.create.aws.done, whose
\* nat_gateway_aws_id, nat_gateway_allocation_id, nat_gateway_allocation_ip
\* and internet_gateway_id are the identifiers the cloud returned
C12_CreateSucceedsCompletely ==
    \A p \in Procs :
        LET s == w[p]
            routed == s.msg.data.object["routed_networks_aws_ids"]
            n == Len(routed)
            resolutions == CallsOf(s, {"DescribeRouteTables"})
            routes == CallsOf(s, {"CreateRoute"})
            created == CallsOf(s, {"CreateNatGateway"})
            allocated == CallsOf(s, {"AllocateAddress"})
            gateways == CallsOf(s, {"DescribeInternetGateways", "CreateInternetGateway"})
        IN  (Handling(s) /\ s.wf = "create" /\ s.pc = "done" /\ FailedCalls(s) = {})
            => /\ Cardinality(resolutions) = n
               /\ Cardinality(routes) = n
               /\ Cardinality(created) = 1
               /\ Cardinality(allocated) = 1
               /\ \A i \in 1..n :
                     /\ \E k \in resolutions : s.calls[k].i = i /\ s.calls[k].arg = routed[i]
                     /\ \E k \in routes :
                           LET t == routeTables[TableIndex(s.calls[k].arg)] IN
                           /\ s.calls[k].i = i
                           /\ t.subnet = routed[i]
                           /\ \A g \in created : s.calls[k].res = s.calls[g].res
                           /\ \E r \in 1..Len(t.routes) :
                                 /\ t.routes[r].dest = DefaultCidr
                                 /\ t.routes[r].nat = s.calls[k].res
               /\ OnlyDoneReply(s)
               /\ \A g \in created :
                     /\ s.calls[g].res \notin {"", Null}
                     /\ s.calls[g].res # "nat-0"
                     /\ ReplyField(s, "nat_gateway_aws_id") = s.calls[g].res
               /\ \A a \in allocated :
                     /\ s.calls[a].res \notin {"", Null}
                     /\ ReplyField(s, "nat_gateway_allocation_id") = s.calls[a].res
               /\ ReplyField(s, "nat_gateway_allocation_ip") = FreshId("ip", p, s.n)
               /\ ReplyField(s, "internet_gateway_id") \notin {"", Null}
               /\ ReplyField(s, "internet_gateway_id") = igwAttached[s.ev.VPCID]
               /\ \E k \in gateways : s.calls[k].res = ReplyField(s, "internet_gateway_id")

\* C12 witness: the create request on [subnet-a, subnet-b] succeeded with two
\* resolutions and two routes to the gateway it created
C12_Witness ==
    \E p \in Procs :
        LET s == w[p] IN
        /\ Handling(s) /\ s.wf = "create" /\ s.pc = "done" /\ FailedCalls(s) = {}
        /\ s.msg.data.object["routed_networks_aws_ids"] = <<"subnet-a", "subnet-b">>
        /\ Cardinality(CallsOf(s, {"CreateRoute"})) = 2
        /\ OnlyDoneReply(s)
        /\ ReplyField(s, "nat_gateway_aws_id") = "nat-1"
        /\ ReplyField(s, "internet_gateway_id") = "igw-1"

----------------------------------------------------------------------------
(* C15 *)

\* the remote calls that would undo a step of a workflow
CompensatingOps ==
    {"ReleaseAddress", "DeleteNatGateway", "DetachInternetGateway",
     "DeleteInternetGateway", "DisassociateRouteTable", "DeleteRouteTable", "DeleteRoute"}

\* C15: when a remote call of Create or Update fails, it is the last call of
\* the workflow and none of the calls is a compensating one; what the earlier
\* steps obtained stays, in the account (the NAT gateway, the attached internet
\* gateway) and in the record (allocation, internet gateway, NAT gateway
\* identifiers), and the one reply, on .error, carries these identifiers and
\* the provider's message in error_message
C15_FailureAbortsWithoutRollback ==
    \A p \in Procs :
        LET s == w[p]
            n == Len(s.calls)
        IN  (Handling(s) /\ s.wf \in {"create", "update"})
            => /\ CallsOf(s, CompensatingOps) = {}
               /\ \A f \in FailedCalls(s) :
                     /\ f = n
                     /\ s.pc = "done"
                     /\ OneErrorReply(s, ProviderError(s.calls[f].op))
                     /\ \A k \in 1..(f - 1) :
                           /\ s.calls[k].op = "AllocateAddress"
                                 => /\ s.ev.NatGatewayAllocationID = s.calls[k].res
                                    /\ ReplyField(s, "nat_gateway_allocation_id") = s.calls[k].res
                                    /\ ReplyField(s, "nat_gateway_allocation_ip") = FreshId("ip", p, s.n)
                           /\ s.calls[k].op = "CreateNatGateway"
                                 => /\ s.ev.InternetGatewayID = igwAttached[s.ev.VPCID]
                                    /\ s.ev.InternetGatewayID # ""
                                    /\ ReplyField(s, "internet_gateway_id") = s.ev.InternetGatewayID
                                    /\ s.ev.NatGatewayAWSID = s.calls[k].res
                                    /\ ReplyField(s, "nat_gateway_aws_id") = s.calls[k].res
                                    /\ s.calls[k].res \in DOMAIN nats
                                    /\ nats[s.calls[k].res] = "present"
                           /\ s.calls[k].op = "AttachInternetGateway"
                                 => igwAttached[s.ev.VPCID] = s.calls[k].arg
                           /\ s.calls[k].op = "AssociateRouteTable"
                                 => routeTables[TableIndex(s.calls[k].res)].subnet = s.calls[k].arg
                     /\ s.wf = "update"
                           => ReplyField(s, "nat_gateway_aws_id") = s.ev.NatGatewayAWSID

\* C15 witness: a Create that had allocated an address, created and attached
\* an internet gateway and created a NAT gateway failed in the wait; the error
\* reply names all three
C15_Witness ==
    \E p \in Procs :
        LET s == w[p]
            n == Len(s.calls)
        IN  /\ Handling(s) /\ s.wf = "create" /\ s.pc = "done"
            /\ n > 0
            /\ s.calls[n].op = "WaitUntilNatGatewayAvailable" /\ ~s.calls[n].ok
            /\ CallsOf(s, {"AttachInternetGateway"}) # {}
            /\ OneErrorReply(s, ProviderError("WaitUntilNatGatewayAvailable"))
            /\ ReplyField(s, "nat_gateway_aws_id") = "nat-1"
            /\ ReplyField(s, "internet_gateway_id") = "igw-1"
            /\ ReplyField(s, "nat_gateway_allocation_id") = FreshId("eipalloc", p, s.n)

----------------------------------------------------------------------------
(* C16 *)

\* C16: the record's error message is set on the failure path alone, and a
\* message published on a .done subject has no error_message, whatever the
\* inbound payload carries
C16_DoneHasNoErrorMessage ==
    \A p \in Procs :
        LET s == w[p] IN
        Handling(s)
        => /\ s.ev.ErrorMessage # "" => s.pc = "done" /\ s.err # Nil
           /\ \A r \in 1..Len(s.replies) :
                 s.replies[r].subject = s.msg.subject \o ".done"
                 => "error_message" \notin DOMAIN s.replies[r].data.object

----------------------------------------------------------------------------
(* C17 *)

\* a route list holds a route to 0.0.0.0/0 whose target is the NAT gateway
HasNatRoute(routes, gwID) ==
    \E r \in 1..Len(routes) : routes[r].dest = DefaultCidr /\ routes[r].nat = gwID

\* the iteration of lookup k ended without a call after the lookup
Skipped(s, k) ==
    IF k < Len(s.calls) THEN s.calls[k + 1].i = s.calls[k].i + 1
    ELSE s.pc = "done" \/ (s.pc = "DescribeRouteTables" /\ s.i = s.calls[k].i + 1)

\* C17: in Update the scan of a resolved table never fails, whatever routes the
\* table holds; the subnet's route installation is skipped exactly when the
\* table holds a 0.0.0.0/0 route to the request's NAT gateway; for any other
\* table, a new one included, one CreateRoute to the request's NAT gateway
\* follows the resolution
C17_UpdateSkipsOnlyConfigured ==
    \A p \in Procs :
        LET s == w[p]
            n == Len(s.calls)
            gwID == s.ev.NatGatewayAWSID
            found == {k \in CallsOf(s, {"DescribeRouteTables"}) :
                         s.calls[k].ok /\ s.calls[k].res # Null}
            made == {k \in CallsOf(s, {"AssociateRouteTable"}) : s.calls[k].ok}
            Installs(k) ==
                IF k < n
                THEN /\ s.calls[k + 1].op = "CreateRoute"
                     /\ s.calls[k + 1].i = s.calls[k].i
                     /\ s.calls[k + 1].arg = s.calls[k].res
                     /\ s.calls[k + 1].res = gwID
                ELSE s.pc = "CreateRoute" /\ s.rt.id = s.calls[k].res
        IN  (Handling(s) /\ s.wf = "update")
            => /\ s.pc # "panic"
               /\ s.pc = "CreateRoute" => ~HasNatRoute(s.rt.routes, gwID)
               /\ \A k \in found :
                     IF Skipped(s, k)
                     THEN HasNatRoute(routeTables[TableIndex(s.calls[k].res)].routes, gwID)
                     ELSE Installs(k)
               /\ \A k \in made : Installs(k)
               /\ \A i \in 1..Len(s.ev.RoutedNetworkAWSIDs) :
                     Cardinality({k \in CallsOf(s, {"CreateRoute"}) : s.calls[k].i = i}) <= 1

----------------------------------------------------------------------------
(* C19 *)

ValidationKinds ==
    {ErrDatacenterIDInvalid, ErrDatacenterRegionInvalid, ErrDatacenterCredentialsInvalid,
     ErrNetworkIDInvalid, ErrRoutedNetworksEmpty, ErrNatGatewayIDInvalid}

\* the place of a kind's check in the order of the checks
Rank(kind) ==
    CASE kind = ErrDatacenterIDInvalid -> 1
      [] kind = ErrDatacenterRegionInvalid -> 2
      [] kind = ErrDatacenterCredentialsInvalid -> 3
      [] kind = ErrNatGatewayIDInvalid -> 4
      [] kind = ErrNetworkIDInvalid -> 4
      [] kind = ErrRoutedNetworksEmpty -> 5

\* the kinds of the checks a payload fails among those that apply to its
\* subject: the NAT gateway ID for nat.delete.aws alone, the public subnet and the
\* routed list for the other subjects alone
FailingChecks(data, subject) ==
    {k \in ValidationKinds :
        \/ k = ErrDatacenterIDInvalid /\ Lacks(data, "vpc_id")
        \/ k = ErrDatacenterRegionInvalid /\ Lacks(data, "datacenter_region")
        \/ k = ErrDatacenterCredentialsInvalid
              /\ (Lacks(data, "datacenter_secret") \/ Lacks(data, "datacenter_token"))
        \/ k = ErrNatGatewayIDInvalid
              /\ subject = "nat.delete.aws" /\ Lacks(data, "nat_gateway_aws_id")
        \/ k = ErrNetworkIDInvalid
              /\ subject # "nat.delete.aws" /\ Lacks(data, "public_network_aws_id")
        \/ k = ErrRoutedNetworksEmpty
              /\ subject # "nat.delete.aws" /\ LacksRouted(data)}

\* C19: a decoded request is rejected by validation exactly when it fails a
\* check that applies to its subject, and then with the kind of the earliest
\* failing check in the order VPC ID, region, credentials, operation-specific
\* checks, before any remote call; so a delete request is never rejected for
\* its public subnet or routed list, nor a create or update request for its
\* NAT gateway ID
C19_FirstFailingCheckReported ==
    \A p \in Procs :
        LET s == w[p]
            failing == FailingChecks(s.msg.data, s.msg.subject)
        IN  (Handling(s) /\ s.msg.data.valid)
            => IF failing = {} THEN s.err \notin ValidationKinds
               ELSE \E k \in failing :
                       /\ \A j \in failing : Rank(k) <= Rank(j)
                       /\ s.err = k
                       /\ OneErrorReply(s, k)
                       /\ s.calls = <<>>

\* C19 witness: a create request that lacks the region, the token and the
\* public subnet was rejected for its region
C19_Witness ==
    \E p \in Procs :
        LET s == w[p] IN
        /\ Handling(s) /\ s.msg.subject = "nat.create.aws" /\ s.msg.data.valid
        /\ ~Lacks(s.msg.data, "vpc_id")
        /\ Lacks(s.msg.data, "datacenter_region")
        /\ Lacks(s.msg.data, "datacenter_token")
        /\ Lacks(s.msg.data, "public_network_aws_id")
        /\ OneErrorReply(s, ErrDatacenterRegionInvalid)

----------------------------------------------------------------------------
(* C13 *)

ErrCouldNotFind == "Could not find nat gateway"

\* the cloud answered a lookup and listed no resource
Absent(l) == l.op # "" /\ l.answered /\ l.listed = 0

\* C13 as stated: every lookup (internet gateway by VPC, route table by
\* subnet, NAT gateway by ID) returns an absent resource as an empty result
\* with no error
C13_Original ==
    \A p \in Procs :
        LET l == w[p].lookup IN
        Absent(l) => l.res = Null /\ l.err = Nil

\* C13 amended: the lookups of an internet gateway by VPC and of a route table
\* by subnet return an absent resource as nil with no error, and the workflow
\* goes on to create it; the lookup of a NAT gateway by ID returns nil and the
\* error "Could not find nat gateway" when the cloud does not list the gateway;
\* every lookup returns the provider's error when the call fails and the first
\* listed resource, with no error, otherwise
C13_AbsentIsAnErrorForNatGatewayOnly ==
    \A p \in Procs :
        LET s == w[p]
            l == s.lookup
            n == Len(s.calls)
        IN  l.op # "" =>
            /\ ~l.answered => l.res = Null /\ l.err \notin {Nil, ErrCouldNotFind}
            /\ (l.answered /\ l.listed > 0) => l.res # Null /\ l.err = Nil
            /\ Absent(l) =>
                  /\ l.res = Null
                  /\ IF l.op = "natGatewayByID" THEN l.err = ErrCouldNotFind ELSE l.err = Nil
                  /\ (l.op = "internetGatewayByVPCID" /\ s.calls[n].op = "DescribeInternetGateways")
                        => s.pc \in {"CreateInternetGateway", At("CreateInternetGateway")}
                  /\ (l.op = "routingTableBySubnetID" /\ s.calls[n].op = "DescribeRouteTables")
                        => s.pc \in {"CreateRouteTable", At("CreateRouteTable")}

\* C13 witness: a delete polled a gateway the cloud no longer lists and the
\* lookup returned the error
C13_Witness ==
    \E p \in Procs :
        LET s == w[p] IN
        /\ s.wf = "delete"
        /\ s.lookup.op = "natGatewayByID"
        /\ Absent(s.lookup)
        /\ s.lookup.err = ErrCouldNotFind
        /\ s.ev.NatGatewayAWSID \notin DOMAIN nats

----------------------------------------------------------------------------
(* C20 *)

\* what a logged call asked for, and what the cloud answered; the last field
\* of a CreateRoute entry is the gateway the call names
Request(c) == <<c.op, c.arg, c.i, IF c.op = "CreateRoute" THEN c.res ELSE "">>
Response(c) == <<c.ok, IF c.op = "CreateRoute" THEN "" ELSE c.res>>

\* the first k calls of two runs got the same answers
SameResponses(a, b, k) ==
    /\ k <= Len(a) /\ k <= Len(b)
    /\ \A j \in 1..k : Response(a[j]) = Response(b[j])

\* C20: a method run on the record and account its function was run on issues,
\* as long as the cloud gives it the answers it gave the function, the calls
\* the function issued, with the same arguments; when it ends after the same
\* answers, the function had ended there too, with the same return value (or
\* crash) and the same record
C20_StylesEquivalent ==
    \A p \in Procs :
        LET s == w[p]
            a == s.first.calls
            b == s.calls
        IN  s.style = "method" =>
            /\ s.wf = s.first.wf
            /\ \A k \in 1..Len(b) :
                  SameResponses(a, b, k - 1)
                  => k <= Len(a) /\ Request(a[k]) = Request(b[k])
            /\ (Finished(s) /\ SameResponses(a, b, Len(b)))
                  => /\ Len(a) = Len(b)
                     /\ s.first.pc = s.pc
                     /\ s.first.err = s.err
                     /\ s.first.ev = s.ev

\* C20 witness: Event.Create returned nil after the eight or more calls and
\* answers of CreateNat, routes included
C20_Witness ==
    \E p \in Procs :
        LET s == w[p] IN
        /\ s.style = "method" /\ s.wf = "create"
        /\ s.pc = "returned" /\ s.err = Nil
        /\ Len(s.calls) >= 8
        /\ s.calls = s.first.calls
        /\ s.first.ev = s.ev
        /\ CallsOf(s, {"CreateRoute"}) # {}

----------------------------------------------------------------------------
(* C18 *)

\* C18: once DeleteNatGateway has succeeded, DeleteNat is either still in its
\* wait, polling or sleeping with nothing published, or it has returned, and
\* then with success and after a poll that reported "deleted"; the wait ends
\* in no other way
C18_DeleteEndsOnlyInSuccess ==
    \A p \in Procs :
        LET s == w[p]
            n == Len(s.calls)
        IN  (s.wf = "delete" /\ n > 0 /\ s.calls[1].op = "DeleteNatGateway" /\ s.calls[1].ok)
            => /\ s.pc \in {"DescribeNatGateways", "Sleep", "returned"}
               /\ s.replies = <<>>
               /\ s.pc = "returned"
                     => /\ s.err = Nil
                        /\ s.calls[n].op = "DescribeNatGateways"
                        /\ s.calls[n].res = "deleted"

----------------------------------------------------------------------------
(* C14 *)

\* a request is blocked in a polling wait
Waiting(s) == s.pc \in {"WaitUntilNatGatewayAvailable", "DescribeNatGateways", "Sleep"}

\* no request but the one of subscription p stands between a new message and
\* its handling
OthersFree(p) ==
    \A q \in Subscriptions : q # p => Ready(q) /\ w[q].n < MaxMsgs

\* C14: while a request is blocked in a polling wait, a message that arrives
\* on any subject, the waiting request's own included, is picked up at once:
\* the goroutine that is to call eventHandler for it is ready, so that its
\* handling does not have to wait for the wait to end
C14_WaitBlocksOnlyItsRequest ==
    \A p \in Subscriptions :
        (Waiting(w[p]) /\ w[p].n < MaxMsgs /\ OthersFree(p))
        => \A sub \in Subscriptions : Ready(sub) /\ w[sub].n < MaxMsgs

----------------------------------------------------------------------------
(* C22 *)

\* C22: every CreateRoute call that Update issues for a request that passed
\* validation targets a NAT gateway id that is not empty and names a NAT
\* gateway of the account
C22_UpdateRoutesToExistingGateway ==
    \A p \in Procs :
        LET s == w[p]
        IN  (Handling(s) /\ s.wf = "update")
            => \A k \in CallsOf(s, {"CreateRoute"}) :
                   /\ s.calls[k].res # ""
                   /\ s.calls[k].res \in DOMAIN nats

----------------------------------------------------------------------------
(* C21 *)

\* the calls of an operation that succeeded in the request of subscription p
Succeeded(p, op) == {k \in CallsOf(w[p], {op}) : w[p].calls[k].ok}

\* the workflows that have created an internet gateway for a VPC, or a route
\* table for a subnet, and have not failed since
GatewayCreators(vpc) ==
    {p \in Subscriptions :
        /\ w[p].err = Nil
        /\ w[p].ev.VPCID = vpc
        /\ Succeeded(p, "CreateInternetGateway") # {}}

TableCreators(subnet) ==
    {p \in Subscriptions :
        /\ w[p].err = Nil
        /\ \E k \in Succeeded(p, "CreateRouteTable") :
              w[p].ev.RoutedNetworkAWSIDs[w[p].calls[k].i] = subnet}

\* C21: over every interleaving of the workflows that run at the same time
\* against one account, the lookup before each create keeps the supporting
\* resources unique: at most one workflow creates an internet gateway for a
\* VPC and at most one creates a route table for a subnet (a workflow that
\* failed after its create is left out: what it leaves behind is not the
\* interleaving's doing)
C21_LookupKeepsResourcesUnique ==
    /\ \A vpc \in VpcIds : Cardinality(GatewayCreators(vpc)) <= 1
    /\ \A subnet \in SubnetIds : Cardinality(TableCreators(subnet)) <= 1

=============================================================================
